---- MODULE Spec2Model ----
(***************************************************************************)
(* Verification model of the document-analysis cache (two-level, content   *)
(* addressed), the analysis orchestrator that uses it, and the LaTeX       *)
(* chunking engines of Proofread_English_Paper_System.                     *)
(*                                                                         *)
(* Bytes are finite sequences of symbols.  A fingerprint is the sequence   *)
(* that was fed to the digest (prefix followed by the bytes): SHA-256 is   *)
(* taken to be collision free, so two fingerprints are equal exactly when  *)
(* the hashed byte strings are equal.  Timestamps are integers (days); the *)
(* ISO-8601 strings the program stores compare in chronological order.     *)
(***************************************************************************)
EXTENDS Integers, Sequences, FiniteSets, TLC

VARIABLES
    full_doc_files,   \* cache_dir/full_documents: fingerprint -> file
    page_files,       \* cache_dir/pages:          fingerprint -> file
    cache_metadata,   \* table cache_metadata:     fingerprint -> row
    session_stats,    \* EnhancedDocumentIntelligenceCache.session_stats
    now,              \* the wall clock read by datetime.now()
    shadow_full,      \* history: last successful full-document put per fingerprint
    shadow_page,      \* history: last successful page put per fingerprint
    pc,               \* analyze_pdf_pages_with_enhanced_cache: "idle" or "pages"
    arg_file_bytes,   \* its arguments file_bytes and file_name
    arg_file_name,
    pages_data,       \* the page units of the splitter
    page_index,       \* position of the page loop in pages_data
    acc_pages_content, \* its list pages_content, the results collected so far
    api_calls,        \* history: external analysis calls of the running call
    history,          \* history: the completed analyze calls, oldest first
    latex,            \* the text handed to a chunking engine
    split_result,     \* what the engine returned or raised
    filter_loop,      \* split_by_command_nlp: all_matches, i and filtered_matches
    protection,       \* protected_text and protection_map of _protect_latex_elements
    puts,             \* the save calls in progress, one per concurrent caller
    raised,           \* the exception a cache call let escape to its caller, if any
    gets,             \* the get_page_cache calls in progress, one per concurrent caller
    legacy_cache      \* DocumentIntelligenceCache: its content files and its metadata

storeVars == <<full_doc_files, page_files, cache_metadata, session_stats, now,
               shadow_full, shadow_page>>

analyzeVars == <<pc, arg_file_bytes, arg_file_name, pages_data, page_index,
                 acc_pages_content, api_calls, history>>

chunkVars == <<latex, split_result, filter_loop, protection>>

ioVars == <<puts, raised, gets, legacy_cache>>

vars == <<storeVars, analyzeVars, chunkVars, ioVars>>

----------------------------------------------------------------------------
(* Bounds of the model *)

MaxTime == 1          \* the clock runs 0..MaxTime
MaxGets == 2          \* gets per cache instance in the store specification
MaxRuns == 2          \* analyze calls per history
MaxLen == 4           \* lexemes per input text of the chunking engines

----------------------------------------------------------------------------
(* Small generic helpers *)

Range(f) == {f[x] : x \in DOMAIN f}

Restrict(f, S) == [x \in S |-> f[x]]

Put(f, k, v) == [x \in (DOMAIN f) \cup {k} |-> IF x = k THEN v ELSE f[x]]

Remove(f, S) == [x \in (DOMAIN f) \ S |-> f[x]]

EmptyMap == << >>

----------------------------------------------------------------------------
(* Inputs *)

PageSymbols == {"p", "q"}

FileNames == {"a.pdf", "b.pdf"}

\* Optional[...] parameters are sequences of length 0 (None) or 1 (a value).
None == << >>

Some(v) == <<v>>

----------------------------------------------------------------------------
(* EnhancedDocumentIntelligenceCache: fingerprints, paths, metadata rows *)

FULL_DOCUMENT == "full_document"

INDIVIDUAL_PAGE == "individual_page"

\* str(page_number) for the page numbers of the model
DecimalDigits == <<"1", "2", "3", "4", "5", "6", "7", "8", "9">>

\* f"page_{page_number}"
PagePrefix(page_number) == <<"page_", DecimalDigits[page_number]>>

\* a variant that hashes the bytes alone
GetFileHashBytesOnly(file_bytes, prefix) == file_bytes

\* hasher.update(prefix) (skipped when the prefix is empty); hasher.update(file_bytes)
GetFileHash(file_bytes, prefix) == IF prefix # << >> THEN prefix \o file_bytes ELSE file_bytes

\* a variant that scopes the page fingerprint under the parent document
PageHashScoped(page_bytes, page_number, parent_hash) ==
    GetFileHash(page_bytes, PagePrefix(page_number) \o parent_hash)

\* the page fingerprint of has_page_cache, get_page_cache and save_page_cache:
\* self._get_file_hash(page_bytes, f"page_{page_number}"); parent_hash takes no part
PageHash(page_bytes, page_number, parent_hash) ==
    GetFileHash(page_bytes, PagePrefix(page_number))

\* The directory a fingerprint's file lives in, by level
CacheDir(cache_level) == IF cache_level = FULL_DOCUMENT THEN full_doc_files ELSE page_files

\* cache_file.exists()
CacheFileExists(file_hash, cache_level) == file_hash \in DOMAIN CacheDir(cache_level)

\* SELECT * FROM cache_metadata WHERE file_hash = ?  (is there a row)
HasMetadata(file_hash) == file_hash \in DOMAIN cache_metadata

\* json.dump(cache_data, f): the file holds the whole document text
JsonDump(cache_data) == [complete |-> TRUE, cache_data |-> cache_data]

\* json.load(f) succeeds only on a complete document
JsonLoadable(file) == file.complete

JsonLoad(file) == file.cache_data

\* A cut-off file: the text is a proper prefix of the document written
TruncatedFile(file) == [file EXCEPT !.complete = FALSE]

\* CacheMetadata(...) as built by the two save operations (access_count=0)
NewMetadata(cache_type, filename, page_number, parent_hash, size) ==
    [cache_type |-> cache_type,
     original_filename |-> filename,
     page_number |-> page_number,
     parent_document_hash |-> parent_hash,
     file_size |-> size,
     created_at |-> now,
     last_accessed |-> now,
     access_count |-> 0]

\* a variant that refreshes last_accessed and forgets the counter
UpdateAccessInfoNoCount(meta, file_hash) ==
    IF file_hash \in DOMAIN meta
    THEN [meta EXCEPT ![file_hash].last_accessed = now]
    ELSE meta

\* a variant that writes the count of a first access instead of adding to it
UpdateAccessInfoOnce(meta, file_hash) ==
    IF file_hash \in DOMAIN meta
    THEN [meta EXCEPT ![file_hash].last_accessed = now,
                      ![file_hash].access_count = 1]
    ELSE meta

\* UPDATE cache_metadata SET last_accessed = ?, access_count = access_count + 1
UpdateAccessInfo(meta, file_hash) ==
    IF file_hash \in DOMAIN meta
    THEN [meta EXCEPT ![file_hash].last_accessed = now,
                      ![file_hash].access_count = @ + 1]
    ELSE meta

----------------------------------------------------------------------------
(* has_full_document_cache / has_page_cache *)

HasFullDocumentCache(file_bytes) ==
    LET file_hash == GetFileHash(file_bytes, << >>)
    IN  CacheFileExists(file_hash, FULL_DOCUMENT) /\ HasMetadata(file_hash)

HasPageCache(page_bytes, page_number, parent_hash) ==
    LET page_hash == PageHash(page_bytes, page_number, parent_hash)
    IN  CacheFileExists(page_hash, INDIVIDUAL_PAGE) /\ HasMetadata(page_hash)

----------------------------------------------------------------------------
(* get_full_document_cache / get_page_cache                                *)
(* The value returned is Optional: None or Some(payload).                  *)

\* the get reaches "return cached_data[...]": has() held and json.load succeeded
FullDocumentCacheHit(file_bytes) ==
    /\ HasFullDocumentCache(file_bytes)
    /\ JsonLoadable(full_doc_files[GetFileHash(file_bytes, << >>)])

PageCacheHit(page_bytes, page_number, parent_hash) ==
    /\ HasPageCache(page_bytes, page_number, parent_hash)
    /\ JsonLoadable(page_files[PageHash(page_bytes, page_number, parent_hash)])

GetFullDocumentCacheReturn(file_bytes) ==
    IF FullDocumentCacheHit(file_bytes)
    THEN Some(JsonLoad(full_doc_files[GetFileHash(file_bytes, << >>)]).pages_content)
    ELSE None

GetPageCacheReturn(page_bytes, page_number, parent_hash) ==
    IF PageCacheHit(page_bytes, page_number, parent_hash)
    THEN Some(JsonLoad(page_files[PageHash(page_bytes, page_number, parent_hash)]).page_content)
    ELSE None

\* a variant that counts the hit and not the call it saved
StatsAfterGetHitsOnly(stats, hit) ==
    IF hit
    THEN [stats EXCEPT !.cache_hits = @ + 1]
    ELSE [stats EXCEPT !.cache_misses = @ + 1]

\* session_stats after one get
StatsAfterGet(stats, hit) ==
    IF hit
    THEN [stats EXCEPT !.cache_hits = @ + 1, !.api_calls_saved = @ + 1]
    ELSE [stats EXCEPT !.cache_misses = @ + 1]

\* cache_metadata after get_full_document_cache
MetadataAfterGetFull(meta, file_bytes) ==
    IF FullDocumentCacheHit(file_bytes)
    THEN UpdateAccessInfo(meta, GetFileHash(file_bytes, << >>))
    ELSE meta

\* cache_metadata after get_page_cache
MetadataAfterGetPage(meta, page_bytes, page_number, parent_hash) ==
    IF PageCacheHit(page_bytes, page_number, parent_hash)
    THEN UpdateAccessInfo(meta, PageHash(page_bytes, page_number, parent_hash))
    ELSE meta

\* history: one more successful get of the entry last put under this fingerprint
ShadowAfterGet(shadow, file_hash, hit) ==
    IF hit /\ file_hash \in DOMAIN shadow
    THEN [shadow EXCEPT ![file_hash].gets = @ + 1]
    ELSE shadow

GetFullDocumentCache(file_bytes, filename) ==
    /\ cache_metadata' = MetadataAfterGetFull(cache_metadata, file_bytes)
    /\ session_stats' = StatsAfterGet(session_stats, FullDocumentCacheHit(file_bytes))
    /\ shadow_full' = ShadowAfterGet(shadow_full, GetFileHash(file_bytes, << >>),
                                     FullDocumentCacheHit(file_bytes))
    /\ UNCHANGED <<full_doc_files, page_files, now, shadow_page>>
    /\ UNCHANGED <<analyzeVars, chunkVars, ioVars>>

GetPageCache(page_bytes, filename, page_number, parent_hash) ==
    /\ cache_metadata' = MetadataAfterGetPage(cache_metadata, page_bytes, page_number, parent_hash)
    /\ session_stats' = StatsAfterGet(session_stats, PageCacheHit(page_bytes, page_number, parent_hash))
    /\ shadow_page' = ShadowAfterGet(shadow_page, PageHash(page_bytes, page_number, parent_hash),
                                     PageCacheHit(page_bytes, page_number, parent_hash))
    /\ UNCHANGED <<full_doc_files, page_files, now, shadow_full>>
    /\ UNCHANGED <<analyzeVars, chunkVars, ioVars>>

----------------------------------------------------------------------------
(* save_full_document_cache / save_page_cache                              *)
(* The "cached_at" stamp of the content file is written and never read; it *)
(* is left out of the file's content.                                      *)

FullCacheData(file_bytes, filename, pages_content) ==
    [file_hash |-> GetFileHash(file_bytes, << >>),
     filename |-> filename,
     cache_type |-> FULL_DOCUMENT,
     pages_content |-> pages_content]

PageCacheData(page_bytes, filename, page_number, parent_hash, page_content) ==
    [page_hash |-> PageHash(page_bytes, page_number, parent_hash),
     filename |-> filename,
     page_number |-> page_number,
     parent_document_hash |-> parent_hash,
     cache_type |-> INDIVIDUAL_PAGE,
     page_content |-> page_content]

\* full_documents/ after the write of the content file
FullFilesAfterSave(files, file_bytes, filename, pages_content) ==
    Put(files, GetFileHash(file_bytes, << >>),
        JsonDump(FullCacheData(file_bytes, filename, pages_content)))

\* pages/ after the write of the content file
PageFilesAfterSave(files, page_bytes, filename, page_number, parent_hash, page_content) ==
    Put(files, PageHash(page_bytes, page_number, parent_hash),
        JsonDump(PageCacheData(page_bytes, filename, page_number, parent_hash, page_content)))

\* INSERT OR REPLACE of the full-document row
MetadataAfterSaveFull(meta, file_bytes, filename) ==
    Put(meta, GetFileHash(file_bytes, << >>),
        NewMetadata(FULL_DOCUMENT, filename, None, None, Len(file_bytes)))

\* a variant that rewrites the table with the page row alone
MetadataAfterSavePageAlone(meta, page_bytes, filename, page_number, parent_hash) ==
    Put(EmptyMap, PageHash(page_bytes, page_number, parent_hash),
        NewMetadata(INDIVIDUAL_PAGE, filename, Some(page_number), Some(parent_hash),
                    Len(page_bytes)))

\* INSERT OR REPLACE of the page row
MetadataAfterSavePage(meta, page_bytes, filename, page_number, parent_hash) ==
    Put(meta, PageHash(page_bytes, page_number, parent_hash),
        NewMetadata(INDIVIDUAL_PAGE, filename, Some(page_number), Some(parent_hash),
                    Len(page_bytes)))

SaveFullDocumentCache(file_bytes, filename, pages_content) ==
    /\ full_doc_files' = FullFilesAfterSave(full_doc_files, file_bytes, filename, pages_content)
    /\ cache_metadata' = MetadataAfterSaveFull(cache_metadata, file_bytes, filename)
    /\ shadow_full' = Put(shadow_full, GetFileHash(file_bytes, << >>),
                          [payload |-> pages_content, gets |-> 0])
    /\ UNCHANGED <<page_files, session_stats, now, shadow_page>>
    /\ UNCHANGED <<analyzeVars, chunkVars, ioVars>>

SavePageCache(page_bytes, filename, page_number, parent_hash, page_content) ==
    /\ page_files' = PageFilesAfterSave(page_files, page_bytes, filename, page_number,
                                        parent_hash, page_content)
    /\ cache_metadata' = MetadataAfterSavePage(cache_metadata, page_bytes, filename,
                                               page_number, parent_hash)
    /\ shadow_page' = Put(shadow_page, PageHash(page_bytes, page_number, parent_hash),
                          [payload |-> page_content, gets |-> 0])
    /\ UNCHANGED <<full_doc_files, session_stats, now, shadow_full>>
    /\ UNCHANGED <<analyzeVars, chunkVars, ioVars>>

----------------------------------------------------------------------------
(* cleanup_by_criteria *)

\* "if max_size_mb:" -- None and 0 both skip the size clause
SizeClauseGiven(max_size_mb) == max_size_mb # None /\ max_size_mb[1] # 0

\* max_size_mb * 1024 * 1024.  The model passes max_size_mb as a whole number
\* of 1/(1024*1024) MB, so that the caps fall among the file sizes of the model.
SizeCapBytes(max_size_mb) == (max_size_mb[1] * 1024 * 1024) \div (1024 * 1024)

\* datetime.now() - timedelta(days=days_old)
CutoffDate(days_old) == now - days_old

\* WHERE (last_accessed < ? OR access_count < ?) [OR file_size > ?]
MatchesCriteria(row, days_old, min_access_count, max_size_mb) ==
    \/ (row.last_accessed < CutoffDate(days_old) \/ row.access_count < min_access_count)
    \/ (SizeClauseGiven(max_size_mb) /\ row.file_size > SizeCapBytes(max_size_mb))

\* cursor.fetchall(): the fingerprints selected for removal
ItemsToRemove(days_old, min_access_count, max_size_mb) ==
    {h \in DOMAIN cache_metadata :
        MatchesCriteria(cache_metadata[h], days_old, min_access_count, max_size_mb)}

\* the files unlinked: each selected row's file in the directory of the row's cache_type
FilesAfterCleanup(files, cache_level, items_to_remove) ==
    Remove(files, {h \in items_to_remove : cache_metadata[h].cache_type = cache_level})

\* removed_count
CleanupByCriteriaReturn(days_old, min_access_count, max_size_mb) ==
    Cardinality(ItemsToRemove(days_old, min_access_count, max_size_mb))

CleanupByCriteria(days_old, min_access_count, max_size_mb) ==
    LET items_to_remove == ItemsToRemove(days_old, min_access_count, max_size_mb)
    IN  /\ full_doc_files' = FilesAfterCleanup(full_doc_files, FULL_DOCUMENT, items_to_remove)
        /\ page_files' = FilesAfterCleanup(page_files, INDIVIDUAL_PAGE, items_to_remove)
        /\ cache_metadata' = Remove(cache_metadata, items_to_remove)
        /\ shadow_full' = Remove(shadow_full, items_to_remove)
        /\ shadow_page' = Remove(shadow_page, items_to_remove)
        /\ UNCHANGED <<session_stats, now>>
        /\ UNCHANGED <<analyzeVars, chunkVars, ioVars>>

----------------------------------------------------------------------------
(* The environment of the cache directory: the clock, a process killed     *)
(* between the content write and the metadata write of a save, and files   *)
(* cut short or deleted behind the program's back.                         *)

Tick ==
    /\ now < MaxTime
    /\ now' = now + 1
    /\ UNCHANGED <<full_doc_files, page_files, cache_metadata, session_stats,
                   shadow_full, shadow_page>>
    /\ UNCHANGED <<analyzeVars, chunkVars, ioVars>>

\* save_full_document_cache killed after json.dump, before _save_cache_metadata
SaveFullDocumentCacheKilled(file_bytes, filename, pages_content) ==
    /\ full_doc_files' = FullFilesAfterSave(full_doc_files, file_bytes, filename, pages_content)
    /\ shadow_full' = Remove(shadow_full, {GetFileHash(file_bytes, << >>)})
    /\ UNCHANGED <<page_files, cache_metadata, session_stats, now, shadow_page>>
    /\ UNCHANGED <<analyzeVars, chunkVars, ioVars>>

\* save_page_cache killed after json.dump, before _save_cache_metadata
SavePageCacheKilled(page_bytes, filename, page_number, parent_hash, page_content) ==
    /\ page_files' = PageFilesAfterSave(page_files, page_bytes, filename, page_number,
                                        parent_hash, page_content)
    /\ shadow_page' = Remove(shadow_page, {PageHash(page_bytes, page_number, parent_hash)})
    /\ UNCHANGED <<full_doc_files, cache_metadata, session_stats, now, shadow_full>>
    /\ UNCHANGED <<analyzeVars, chunkVars, ioVars>>

TruncateFullFile(file_hash) ==
    /\ file_hash \in DOMAIN full_doc_files
    /\ full_doc_files[file_hash].complete
    /\ full_doc_files' = [full_doc_files EXCEPT ![file_hash] = TruncatedFile(@)]
    /\ shadow_full' = Remove(shadow_full, {file_hash})
    /\ UNCHANGED <<page_files, cache_metadata, session_stats, now, shadow_page>>
    /\ UNCHANGED <<analyzeVars, chunkVars, ioVars>>

TruncatePageFile(file_hash) ==
    /\ file_hash \in DOMAIN page_files
    /\ page_files[file_hash].complete
    /\ page_files' = [page_files EXCEPT ![file_hash] = TruncatedFile(@)]
    /\ shadow_page' = Remove(shadow_page, {file_hash})
    /\ UNCHANGED <<full_doc_files, cache_metadata, session_stats, now, shadow_full>>
    /\ UNCHANGED <<analyzeVars, chunkVars, ioVars>>

DeleteFullFile(file_hash) ==
    /\ file_hash \in DOMAIN full_doc_files
    /\ full_doc_files' = Remove(full_doc_files, {file_hash})
    /\ shadow_full' = Remove(shadow_full, {file_hash})
    /\ UNCHANGED <<page_files, cache_metadata, session_stats, now, shadow_page>>
    /\ UNCHANGED <<analyzeVars, chunkVars, ioVars>>

DeletePageFile(file_hash) ==
    /\ file_hash \in DOMAIN page_files
    /\ page_files' = Remove(page_files, {file_hash})
    /\ shadow_page' = Remove(shadow_page, {file_hash})
    /\ UNCHANGED <<full_doc_files, cache_metadata, session_stats, now, shadow_full>>
    /\ UNCHANGED <<analyzeVars, chunkVars, ioVars>>

----------------------------------------------------------------------------
(* Page results: the dictionaries the orchestrator builds and the cache keeps *)

\* Path(file_name).stem
Stem(file_name) == IF file_name = "a.pdf" THEN "a" ELSE "b"

\* f"{Path(file_name).stem}_page_{page_num + 1}.pdf"
PageFileName(file_name, page_number) ==
    <<Stem(file_name), "_page_", DecimalDigits[page_number], ".pdf">>

PageResult(page_number, page_content, file_name, page_file_name) ==
    [page_number |-> page_number,
     content |-> page_content,
     source_file |-> file_name,
     page_file_name |-> page_file_name]

----------------------------------------------------------------------------
(* Specification of the cache store used directly through its interface *)

StoreDocs == {<<"p", "q">>}

StorePages == {<<"p">>}

StorePageNumbers == {1}

StorePagePayloads ==
    {PageResult(1, c, "a.pdf", PageFileName("a.pdf", 1)) : c \in {<<"x">>, <<"y">>}}

StoreFullPayloads == {<<x>> : x \in StorePagePayloads}

DaysOldValues == {0, 1}

MinAccessValues == {0, 1, 2}

MaxSizeValues == {None, Some(0), Some(1)}

\* the parts of the state the orchestrator and the chunking engines own, at rest
InitAnalyze ==
    /\ pc = "idle"
    /\ arg_file_bytes = << >>
    /\ arg_file_name = ""
    /\ pages_data = << >>
    /\ page_index = 0
    /\ acc_pages_content = << >>
    /\ api_calls = << >>
    /\ history = << >>

InitChunk ==
    /\ latex = << >>
    /\ split_result = [mode |-> "none", status |-> "none", chunks |-> << >>]
    /\ filter_loop = None
    /\ protection = None

\* EnhancedDocumentIntelligenceCache.__init__ on a fresh directory
InitCache ==
    /\ full_doc_files = EmptyMap
    /\ page_files = EmptyMap
    /\ cache_metadata = EmptyMap
    /\ session_stats = [cache_hits |-> 0, cache_misses |-> 0, bytes_saved |-> 0,
                        api_calls_saved |-> 0]
    /\ now = 0
    /\ shadow_full = EmptyMap
    /\ shadow_page = EmptyMap

\* the callers that may be inside a save at the same time
Writers == {1, 2}

\* the callers that may be inside a get at the same time
Readers == 1..MaxGets

\* a caller that has not called get_page_cache
AtRest == [pc |-> "idle", request |-> None, cached_data |-> None, counters |-> << >>,
           loaded |-> None, returned |-> None]

\* no save in progress, no exception escaped
InitIo ==
    /\ puts = [w \in Writers |-> [pc |-> "idle", request |-> None]]
    /\ raised = None
    /\ gets = [r \in Readers |-> AtRest]
    /\ legacy_cache = [files |-> EmptyMap, metadata |-> EmptyMap]

InitStore == InitCache /\ InitAnalyze /\ InitChunk /\ InitIo

\* the counters of the model stay within the bounds
GetsBelowCap == session_stats.cache_hits + session_stats.cache_misses < MaxGets

NextStore ==
    \/ \E b \in StoreDocs, x \in StoreFullPayloads : SaveFullDocumentCache(b, "a.pdf", x)
    \/ \E b \in StorePages, n \in StorePageNumbers, x \in StorePagePayloads :
          SavePageCache(b, "a.pdf", n, <<"p">>, x)
    \/ \E b \in StoreDocs :
          /\ GetsBelowCap
          /\ GetFullDocumentCache(b, "a.pdf")
    \/ \E b \in StorePages, n \in StorePageNumbers :
          /\ GetsBelowCap
          /\ GetPageCache(b, "a.pdf", n, <<"p">>)
    \/ \E d \in DaysOldValues, m \in MinAccessValues, s \in MaxSizeValues :
          CleanupByCriteria(d, m, s)
    \/ Tick
    \/ \E b \in StoreDocs, x \in StoreFullPayloads : SaveFullDocumentCacheKilled(b, "a.pdf", x)
    \/ \E b \in StorePages, n \in StorePageNumbers, x \in StorePagePayloads :
          SavePageCacheKilled(b, "a.pdf", n, <<"p">>, x)
    \/ \E h \in DOMAIN full_doc_files : TruncateFullFile(h)
    \/ \E h \in DOMAIN page_files : TruncatePageFile(h)
    \/ \E h \in DOMAIN full_doc_files : DeleteFullFile(h)
    \/ \E h \in DOMAIN page_files : DeletePageFile(h)

SpecStore == InitStore /\ [][NextStore]_vars

----------------------------------------------------------------------------
(* PDFPageSplitter.split_pdf_to_pages                                      *)
(* A document is the sequence of its pages' symbols; the symbol "!" is a   *)
(* page at which the PDF library raises, after the pages before it were    *)
(* made.                                                                   *)

Parseable(file_bytes) == \A i \in 1..Len(file_bytes) : file_bytes[i] # "!"

\* a variant that keeps the pages it made before the exception
SplitPdfToPagesKeepingPages(file_bytes, file_name) ==
    IF Parseable(file_bytes)
    THEN [i \in 1..Len(file_bytes) |->
            [page_number |-> i,
             page_bytes |-> <<file_bytes[i]>>,
             source_file |-> file_name,
             page_file_name |-> PageFileName(file_name, i)]]
    ELSE LET made == CHOOSE n \in 0..Len(file_bytes) :
                        /\ n < Len(file_bytes)
                        /\ file_bytes[n + 1] = "!"
                        /\ \A i \in 1..n : file_bytes[i] # "!"
         IN  [i \in 1..made |->
                 [page_number |-> i,
                  page_bytes |-> <<file_bytes[i]>>,
                  source_file |-> file_name,
                  page_file_name |-> PageFileName(file_name, i)]]
             \o <<[page_number |-> 1,
                   page_bytes |-> file_bytes,
                   source_file |-> file_name,
                   page_file_name |-> <<file_name>>]>>

\* the page units: one per page, or the whole document as page 1 on any exception
SplitPdfToPages(file_bytes, file_name) ==
    IF Parseable(file_bytes)
    THEN [i \in 1..Len(file_bytes) |->
            [page_number |-> i,
             page_bytes |-> <<file_bytes[i]>>,
             source_file |-> file_name,
             page_file_name |-> PageFileName(file_name, i)]]
    ELSE <<[page_number |-> 1,
            page_bytes |-> file_bytes,
            source_file |-> file_name,
            page_file_name |-> <<file_name>>]>>

----------------------------------------------------------------------------
(* str.strip() on texts, which are sequences of characters *)

IsSpace(c) == c \in {" ", "\n", "\t"}

RECURSIVE LStrip(_)
LStrip(s) == IF s = << >> THEN s
             ELSE IF IsSpace(Head(s)) THEN LStrip(Tail(s)) ELSE s

RECURSIVE RStrip(_)
RStrip(s) == IF s = << >> THEN s
             ELSE IF IsSpace(s[Len(s)]) THEN RStrip(SubSeq(s, 1, Len(s) - 1)) ELSE s

Strip(s) == RStrip(LStrip(s))

----------------------------------------------------------------------------
(* DocumentIntelligenceClient.analyze_pdf_pages_with_enhanced_cache        *)

\* for line in page.lines: page_content += line.content + "\n"
RECURSIVE JoinLines(_)
JoinLines(lines) == IF lines = << >> THEN << >>
                    ELSE Head(lines) \o <<"\n">> \o JoinLines(Tail(lines))

\* for page in result.pages: ... (pages without lines add nothing)
RECURSIVE JoinPages(_)
JoinPages(pages) == IF pages = << >> THEN << >>
                    ELSE JoinLines(Head(pages)) \o JoinPages(Tail(pages))

\* the page_content extracted from the service's result
ExtractPageContent(result) ==
    IF result.content # << >> THEN Strip(result.content)
    ELSE IF result.pages # << >> THEN Strip(JoinPages(result.pages))
    ELSE << >>

\* what poller.result() can do: raise, or return a result object
ServiceOutcomes ==
    {[raised |-> TRUE,  content |-> << >>, pages |-> << >>],
     [raised |-> FALSE, content |-> <<"x", " ">>, pages |-> << >>],
     [raised |-> FALSE, content |-> <<" ">>, pages |-> << <<<<"y">>>> >>],
     [raised |-> FALSE, content |-> << >>, pages |-> << <<<<"y">>>>, << >> >>]}

\* a variant that returns early only when every page entry is cached as well
FullDocumentShortCircuitStrict(file_bytes, file_name) ==
    /\ GetFullDocumentCacheReturn(file_bytes) # None
    /\ LET units == SplitPdfToPages(file_bytes, file_name)
       IN  \A i \in 1..Len(units) :
              PageCacheHit(units[i].page_bytes, units[i].page_number,
                           GetFileHash(file_bytes, << >>))

\* if full_doc_cached_result is not None: return full_doc_cached_result
FullDocumentShortCircuit(file_bytes, file_name) ==
    GetFullDocumentCacheReturn(file_bytes) # None

\* a variant that never stores the assembled result
SavesFullDocumentNever(pages_content) == FALSE

\* if pages_content: self.cache.save_full_document_cache(...)
SavesFullDocument(pages_content) == pages_content # << >>

\* history: the record of a completed call
RunRecord(file_bytes, file_name, full_hit, split_calls, calls, result) ==
    [file_bytes |-> file_bytes,
     file_name |-> file_name,
     full_hit |-> full_hit,
     split_calls |-> split_calls,
     api_calls |-> calls,
     result |-> result]

AnalyzeAtRest ==
    /\ pc' = "idle"
    /\ arg_file_bytes' = << >>
    /\ arg_file_name' = ""
    /\ pages_data' = << >>
    /\ page_index' = 0
    /\ acc_pages_content' = << >>
    /\ api_calls' = << >>

\* entry of the call up to the page loop: the full-document lookup, then the split
AnalyzeStart(file_bytes, file_name) ==
    /\ pc = "idle"
    /\ Len(history) < MaxRuns
    /\ cache_metadata' = MetadataAfterGetFull(cache_metadata, file_bytes)
    /\ session_stats' = StatsAfterGet(session_stats, FullDocumentCacheHit(file_bytes))
    /\ shadow_full' = ShadowAfterGet(shadow_full, GetFileHash(file_bytes, << >>),
                                     FullDocumentCacheHit(file_bytes))
    /\ IF FullDocumentShortCircuit(file_bytes, file_name)
       THEN /\ AnalyzeAtRest
            /\ history' = Append(history,
                              RunRecord(file_bytes, file_name, TRUE, 0, << >>,
                                        GetFullDocumentCacheReturn(file_bytes)[1]))
       ELSE /\ pc' = "pages"
            /\ arg_file_bytes' = file_bytes
            /\ arg_file_name' = file_name
            /\ pages_data' = SplitPdfToPages(file_bytes, file_name)
            /\ page_index' = 1
            /\ acc_pages_content' = << >>
            /\ api_calls' = << >>
            /\ UNCHANGED history
    /\ UNCHANGED <<full_doc_files, page_files, now, shadow_page, chunkVars, ioVars>>

\* the page the loop is at, and the parent fingerprint
CurrentPage == pages_data[page_index]

ParentHash == GetFileHash(arg_file_bytes, << >>)

InPageLoop == pc = "pages" /\ page_index <= Len(pages_data)

\* one iteration of the loop on a page the page cache answers
AnalyzePageCached ==
    /\ InPageLoop
    /\ GetPageCacheReturn(CurrentPage.page_bytes, CurrentPage.page_number, ParentHash) # None
    /\ acc_pages_content' =
          Append(acc_pages_content,
                 GetPageCacheReturn(CurrentPage.page_bytes, CurrentPage.page_number,
                                    ParentHash)[1])
    /\ cache_metadata' = MetadataAfterGetPage(cache_metadata, CurrentPage.page_bytes,
                                              CurrentPage.page_number, ParentHash)
    /\ session_stats' = StatsAfterGet(session_stats, TRUE)
    /\ shadow_page' = ShadowAfterGet(shadow_page,
                                     PageHash(CurrentPage.page_bytes,
                                              CurrentPage.page_number, ParentHash), TRUE)
    /\ page_index' = page_index + 1
    /\ UNCHANGED <<full_doc_files, page_files, now, shadow_full, chunkVars, ioVars>>
    /\ UNCHANGED <<pc, arg_file_bytes, arg_file_name, pages_data, api_calls, history>>

\* history: one external call, with what came of it
CallRecord(page, outcome) ==
    [page_number |-> page.page_number,
     page_bytes |-> page.page_bytes,
     raised |-> outcome.raised,
     page_content |-> IF outcome.raised THEN << >> ELSE ExtractPageContent(outcome)]

\* a variant whose try block wraps the whole loop: an exception ends the loop
AnalyzePageCallAborting(outcome) ==
    /\ InPageLoop
    /\ GetPageCacheReturn(CurrentPage.page_bytes, CurrentPage.page_number, ParentHash) = None
    /\ session_stats' = StatsAfterGet(session_stats, FALSE)
    /\ api_calls' = Append(api_calls, CallRecord(CurrentPage, outcome))
    /\ page_index' = IF outcome.raised THEN Len(pages_data) + 1 ELSE page_index + 1
    /\ IF ~outcome.raised /\ ExtractPageContent(outcome) # << >>
       THEN LET page_result == PageResult(CurrentPage.page_number,
                                          ExtractPageContent(outcome),
                                          arg_file_name, CurrentPage.page_file_name)
            IN  /\ acc_pages_content' = Append(acc_pages_content, page_result)
                /\ page_files' = PageFilesAfterSave(page_files, CurrentPage.page_bytes,
                                                    arg_file_name, CurrentPage.page_number,
                                                    ParentHash, page_result)
                /\ cache_metadata' = MetadataAfterSavePage(cache_metadata,
                                                           CurrentPage.page_bytes,
                                                           arg_file_name,
                                                           CurrentPage.page_number,
                                                           ParentHash)
                /\ shadow_page' = Put(shadow_page,
                                      PageHash(CurrentPage.page_bytes,
                                               CurrentPage.page_number, ParentHash),
                                      [payload |-> page_result, gets |-> 0])
       ELSE UNCHANGED <<acc_pages_content, page_files, cache_metadata, shadow_page>>
    /\ UNCHANGED <<full_doc_files, now, shadow_full, chunkVars, ioVars>>
    /\ UNCHANGED <<pc, arg_file_bytes, arg_file_name, pages_data, history>>

\* a variant that stores and returns whatever a call that did not raise gave
AnalyzePageCallKeepingEmpty(outcome) ==
    /\ InPageLoop
    /\ GetPageCacheReturn(CurrentPage.page_bytes, CurrentPage.page_number, ParentHash) = None
    /\ session_stats' = StatsAfterGet(session_stats, FALSE)
    /\ api_calls' = Append(api_calls, CallRecord(CurrentPage, outcome))
    /\ page_index' = page_index + 1
    /\ IF ~outcome.raised
       THEN LET page_result == PageResult(CurrentPage.page_number,
                                          ExtractPageContent(outcome),
                                          arg_file_name, CurrentPage.page_file_name)
            IN  /\ acc_pages_content' = Append(acc_pages_content, page_result)
                /\ page_files' = PageFilesAfterSave(page_files, CurrentPage.page_bytes,
                                                    arg_file_name, CurrentPage.page_number,
                                                    ParentHash, page_result)
                /\ cache_metadata' = MetadataAfterSavePage(cache_metadata,
                                                           CurrentPage.page_bytes,
                                                           arg_file_name,
                                                           CurrentPage.page_number,
                                                           ParentHash)
                /\ shadow_page' = Put(shadow_page,
                                      PageHash(CurrentPage.page_bytes,
                                               CurrentPage.page_number, ParentHash),
                                      [payload |-> page_result, gets |-> 0])
       ELSE UNCHANGED <<acc_pages_content, page_files, cache_metadata, shadow_page>>
    /\ UNCHANGED <<full_doc_files, now, shadow_full, chunkVars, ioVars>>
    /\ UNCHANGED <<pc, arg_file_bytes, arg_file_name, pages_data, history>>

\* one iteration of the loop on a page the page cache misses: the external call
AnalyzePageCall(outcome) ==
    /\ InPageLoop
    /\ GetPageCacheReturn(CurrentPage.page_bytes, CurrentPage.page_number, ParentHash) = None
    /\ session_stats' = StatsAfterGet(session_stats, FALSE)
    /\ api_calls' = Append(api_calls, CallRecord(CurrentPage, outcome))
    /\ page_index' = page_index + 1
    /\ IF ~outcome.raised /\ ExtractPageContent(outcome) # << >>
       THEN LET page_result == PageResult(CurrentPage.page_number,
                                          ExtractPageContent(outcome),
                                          arg_file_name, CurrentPage.page_file_name)
            IN  /\ acc_pages_content' = Append(acc_pages_content, page_result)
                /\ page_files' = PageFilesAfterSave(page_files, CurrentPage.page_bytes,
                                                    arg_file_name, CurrentPage.page_number,
                                                    ParentHash, page_result)
                /\ cache_metadata' = MetadataAfterSavePage(cache_metadata,
                                                           CurrentPage.page_bytes,
                                                           arg_file_name,
                                                           CurrentPage.page_number,
                                                           ParentHash)
                /\ shadow_page' = Put(shadow_page,
                                      PageHash(CurrentPage.page_bytes,
                                               CurrentPage.page_number, ParentHash),
                                      [payload |-> page_result, gets |-> 0])
       ELSE UNCHANGED <<acc_pages_content, page_files, cache_metadata, shadow_page>>
    /\ UNCHANGED <<full_doc_files, now, shadow_full, chunkVars, ioVars>>
    /\ UNCHANGED <<pc, arg_file_bytes, arg_file_name, pages_data, history>>

\* after the loop: store the assembled result when it is not empty, and return it
AnalyzeFinish ==
    /\ pc = "pages"
    /\ page_index > Len(pages_data)
    /\ IF SavesFullDocument(acc_pages_content)
       THEN /\ full_doc_files' = FullFilesAfterSave(full_doc_files, arg_file_bytes,
                                                    arg_file_name, acc_pages_content)
            /\ cache_metadata' = MetadataAfterSaveFull(cache_metadata, arg_file_bytes,
                                                       arg_file_name)
            /\ shadow_full' = Put(shadow_full, ParentHash,
                                  [payload |-> acc_pages_content, gets |-> 0])
       ELSE UNCHANGED <<full_doc_files, cache_metadata, shadow_full>>
    /\ history' = Append(history,
                      RunRecord(arg_file_bytes, arg_file_name, FALSE, 1, api_calls,
                                acc_pages_content))
    /\ AnalyzeAtRest
    /\ UNCHANGED <<page_files, session_stats, now, shadow_page, chunkVars, ioVars>>

----------------------------------------------------------------------------
(* Specification of the orchestrator alone, on a cache that starts empty *)

AnalyzeDocs == {<<"p", "q">>, <<"q", "p">>, <<"p">>, <<"p", "!">>}

NextAnalyze ==
    \/ \E b \in AnalyzeDocs, f \in FileNames : AnalyzeStart(b, f)
    \/ AnalyzePageCached
    \/ \E o \in ServiceOutcomes : AnalyzePageCall(o)
    \/ AnalyzeFinish

SpecAnalyze == InitStore /\ [][NextAnalyze]_vars

----------------------------------------------------------------------------
(* The legacy variant: DocumentIntelligenceCache and analyze_pdf_pages of a *)
(* client built with use_enhanced_cache=False.                              *)

\* hashlib.sha256(file_bytes).hexdigest()
LegacyGetFileHash(file_bytes) == file_bytes

\* has_cache: cache_file.exists() and file_hash in self.metadata
HasCache(file_bytes) ==
    /\ LegacyGetFileHash(file_bytes) \in DOMAIN legacy_cache.files
    /\ LegacyGetFileHash(file_bytes) \in DOMAIN legacy_cache.metadata

\* get_cache returns a value: has_cache holds and json.load succeeds
LegacyCacheHit(file_bytes) ==
    /\ HasCache(file_bytes)
    /\ JsonLoadable(legacy_cache.files[LegacyGetFileHash(file_bytes)])

\* get_cache: None, or Some(cached_data["pages_content"])
GetCacheReturn(file_bytes) ==
    IF LegacyCacheHit(file_bytes)
    THEN Some(JsonLoad(legacy_cache.files[LegacyGetFileHash(file_bytes)]).pages_content)
    ELSE None

\* the cache after get_cache: a hit refreshes last_accessed, a file that does
\* not load is removed with its metadata (_remove_cache_file)
LegacyCacheAfterGet(file_bytes) ==
    LET file_hash == LegacyGetFileHash(file_bytes)
    IN  IF LegacyCacheHit(file_bytes)
        THEN [legacy_cache EXCEPT !.metadata[file_hash].last_accessed = now]
        ELSE IF HasCache(file_bytes)
             THEN [files |-> Remove(legacy_cache.files, {file_hash}),
                   metadata |-> Remove(legacy_cache.metadata, {file_hash})]
             ELSE legacy_cache

\* the cache after save_cache
LegacyCacheAfterSave(file_bytes, file_name, pages_content) ==
    LET file_hash == LegacyGetFileHash(file_bytes)
    IN  [files |-> Put(legacy_cache.files, file_hash,
                       JsonDump([file_name |-> file_name,
                                 file_hash |-> file_hash,
                                 pages_content |-> pages_content])),
         metadata |-> Put(legacy_cache.metadata, file_hash,
                          [file_name |-> file_name,
                           created_at |-> now,
                           last_accessed |-> now,
                           file_size |-> Len(file_bytes),
                           pages_count |-> Len(pages_content)])]

\* analyze_pdf_pages up to the page loop: the lookup, then the split
LegacyAnalyzeStart(file_bytes, file_name) ==
    /\ pc = "idle"
    /\ Len(history) < MaxRuns
    /\ legacy_cache' = LegacyCacheAfterGet(file_bytes)
    /\ IF GetCacheReturn(file_bytes) # None
       THEN /\ AnalyzeAtRest
            /\ history' = Append(history,
                              RunRecord(file_bytes, file_name, TRUE, 0, << >>,
                                        GetCacheReturn(file_bytes)[1]))
       ELSE /\ pc' = "legacy_pages"
            /\ arg_file_bytes' = file_bytes
            /\ arg_file_name' = file_name
            /\ pages_data' = SplitPdfToPages(file_bytes, file_name)
            /\ page_index' = 1
            /\ acc_pages_content' = << >>
            /\ api_calls' = << >>
            /\ UNCHANGED history
    /\ UNCHANGED <<storeVars, chunkVars, puts, raised, gets>>

\* a variant whose try block wraps the whole loop: an exception ends the loop
LegacyPageCallAborting(outcome) ==
    /\ pc = "legacy_pages"
    /\ page_index <= Len(pages_data)
    /\ api_calls' = Append(api_calls, CallRecord(CurrentPage, outcome))
    /\ page_index' = IF outcome.raised THEN Len(pages_data) + 1 ELSE page_index + 1
    /\ acc_pages_content' =
          IF ~outcome.raised /\ ExtractPageContent(outcome) # << >>
          THEN Append(acc_pages_content,
                      PageResult(CurrentPage.page_number, ExtractPageContent(outcome),
                                 arg_file_name, CurrentPage.page_file_name))
          ELSE acc_pages_content
    /\ UNCHANGED <<pc, arg_file_bytes, arg_file_name, pages_data, history>>
    /\ UNCHANGED <<storeVars, chunkVars, ioVars>>

\* one iteration of the page loop: the external call on the page's bytes
LegacyPageCall(outcome) ==
    /\ pc = "legacy_pages"
    /\ page_index <= Len(pages_data)
    /\ api_calls' = Append(api_calls, CallRecord(CurrentPage, outcome))
    /\ page_index' = page_index + 1
    /\ acc_pages_content' =
          IF ~outcome.raised /\ ExtractPageContent(outcome) # << >>
          THEN Append(acc_pages_content,
                      PageResult(CurrentPage.page_number, ExtractPageContent(outcome),
                                 arg_file_name, CurrentPage.page_file_name))
          ELSE acc_pages_content
    /\ UNCHANGED <<pc, arg_file_bytes, arg_file_name, pages_data, history>>
    /\ UNCHANGED <<storeVars, chunkVars, ioVars>>

\* after the loop: self.cache.save_cache(file_bytes, file_name, pages_content)
LegacyFinish ==
    /\ pc = "legacy_pages"
    /\ page_index > Len(pages_data)
    /\ legacy_cache' = LegacyCacheAfterSave(arg_file_bytes, arg_file_name, acc_pages_content)
    /\ history' = Append(history,
                      RunRecord(arg_file_bytes, arg_file_name, FALSE, 1, api_calls,
                                acc_pages_content))
    /\ AnalyzeAtRest
    /\ UNCHANGED <<storeVars, chunkVars, puts, raised, gets>>

\* a content file of the legacy cache is cut off by another party
TruncateLegacyFile(file_hash) ==
    /\ pc = "idle"
    /\ file_hash \in DOMAIN legacy_cache.files
    /\ legacy_cache.files[file_hash].complete
    /\ legacy_cache' = [legacy_cache EXCEPT !.files[file_hash] = TruncatedFile(@)]
    /\ UNCHANGED <<storeVars, analyzeVars, chunkVars, puts, raised, gets>>

NextLegacy ==
    \/ \E b \in AnalyzeDocs : LegacyAnalyzeStart(b, "a.pdf")
    \/ \E o \in ServiceOutcomes : LegacyPageCall(o)
    \/ LegacyFinish
    \/ \E h \in DOMAIN legacy_cache.files : TruncateLegacyFile(h)

SpecLegacy == InitStore /\ [][NextLegacy]_vars

----------------------------------------------------------------------------

(* Specification of the orchestrator on a cache that other parties disturb: *)
(* files are cut off or deleted, and little-used entries are evicted.        *)

EnvDocs == {<<"p", "q">>}

\* the other parties act between two calls of the orchestrator
Disturbance ==
    \/ \E h \in DOMAIN full_doc_files : TruncateFullFile(h)
    \/ \E h \in DOMAIN page_files : TruncatePageFile(h)
    \/ \E h \in DOMAIN full_doc_files : DeleteFullFile(h)
    \/ \E h \in DOMAIN page_files : DeletePageFile(h)
    \/ \E m \in MinAccessValues : CleanupByCriteria(0, m, None)

Next ==
    \/ \E b \in EnvDocs : AnalyzeStart(b, "a.pdf")
    \/ AnalyzePageCached
    \/ \E o \in ServiceOutcomes : AnalyzePageCall(o)
    \/ AnalyzeFinish
    \/ (pc = "idle" /\ Disturbance)

Spec == InitStore /\ [][Next]_vars

----------------------------------------------------------------------------
(* The two saves step by step, as concurrent callers run them: open(.., 'w') *)
(* creates or empties the content file, json.dump and the close of the     *)
(* with-block write the text from offset 0 of the caller's own descriptor, *)
(* _save_cache_metadata replaces the row.  A caller may be killed between  *)
(* any two steps.                                                          *)

\* the arguments of a save call, of either level
SaveRequest(cache_level, file_bytes, filename, page_number, parent_hash, content) ==
    [cache_level |-> cache_level,
     file_bytes |-> file_bytes,
     filename |-> filename,
     page_number |-> page_number,
     parent_hash |-> parent_hash,
     content |-> content]

\* file_hash / page_hash of the call
RequestHash(request) ==
    IF request.cache_level = FULL_DOCUMENT
    THEN GetFileHash(request.file_bytes, << >>)
    ELSE PageHash(request.file_bytes, request.page_number[1], request.parent_hash[1])

\* cache_data of the call
RequestCacheData(request) ==
    IF request.cache_level = FULL_DOCUMENT
    THEN FullCacheData(request.file_bytes, request.filename, request.content)
    ELSE PageCacheData(request.file_bytes, request.filename, request.page_number[1],
                       request.parent_hash[1], request.content)

RECURSIVE ContentLength(_)
ContentLength(pages_content) ==
    IF pages_content = << >> THEN 0
    ELSE Len(Head(pages_content).content) + ContentLength(Tail(pages_content))

\* the length of the text json.dump writes, up to the part that is the same
\* for every payload of one fingerprint
JsonTextLength(cache_data) ==
    IF cache_data.cache_type = FULL_DOCUMENT
    THEN ContentLength(cache_data.pages_content)
    ELSE Len(cache_data.page_content.content)

\* open(cache_file, 'w'): the file exists and is empty
OpenForWriting(files, file_hash, cache_data) ==
    Put(files, file_hash, TruncatedFile(JsonDump(cache_data)))

\* json.dump and close: the text goes over the first characters of what the
\* file holds now.  A file left empty by the open, or holding a text that is
\* not longer, becomes the document written; a longer text written since the
\* open keeps its tail, and the file is no JSON document ("Extra data").
WriteAndClose(files, file_hash, cache_data) ==
    IF file_hash \notin DOMAIN files THEN files
    ELSE IF /\ JsonLoadable(files[file_hash])
            /\ JsonTextLength(JsonLoad(files[file_hash])) > JsonTextLength(cache_data)
         THEN Put(files, file_hash, TruncatedFile(JsonDump(cache_data)))
         ELSE Put(files, file_hash, JsonDump(cache_data))

\* the row built by the save call
RequestMetadata(meta, request) ==
    IF request.cache_level = FULL_DOCUMENT
    THEN MetadataAfterSaveFull(meta, request.file_bytes, request.filename)
    ELSE MetadataAfterSavePage(meta, request.file_bytes, request.filename,
                               request.page_number[1], request.parent_hash[1])

PutAt(w, position, request) == [puts EXCEPT ![w] = [pc |-> position, request |-> request]]

\* with open(cache_file, 'w', encoding='utf-8') as f:
SaveOpen(w, request) ==
    /\ puts[w].pc = "idle"
    /\ IF request.cache_level = FULL_DOCUMENT
       THEN /\ full_doc_files' = OpenForWriting(full_doc_files, RequestHash(request),
                                                RequestCacheData(request))
            /\ UNCHANGED page_files
       ELSE /\ page_files' = OpenForWriting(page_files, RequestHash(request),
                                            RequestCacheData(request))
            /\ UNCHANGED full_doc_files
    /\ puts' = PutAt(w, "opened", Some(request))
    /\ UNCHANGED <<cache_metadata, session_stats, now, shadow_full, shadow_page>>
    /\ UNCHANGED <<analyzeVars, chunkVars, raised, gets, legacy_cache>>

\* json.dump(cache_data, f, ensure_ascii=False, indent=2), and the file is closed
SaveDump(w) ==
    /\ puts[w].pc = "opened"
    /\ LET request == puts[w].request[1]
       IN  IF request.cache_level = FULL_DOCUMENT
           THEN /\ full_doc_files' = WriteAndClose(full_doc_files, RequestHash(request),
                                                   RequestCacheData(request))
                /\ UNCHANGED page_files
           ELSE /\ page_files' = WriteAndClose(page_files, RequestHash(request),
                                               RequestCacheData(request))
                /\ UNCHANGED full_doc_files
    /\ puts' = PutAt(w, "dumped", puts[w].request)
    /\ UNCHANGED <<cache_metadata, session_stats, now, shadow_full, shadow_page>>
    /\ UNCHANGED <<analyzeVars, chunkVars, raised, gets, legacy_cache>>

\* self._save_cache_metadata(metadata); return True
SaveMetadata(w) ==
    /\ puts[w].pc = "dumped"
    /\ LET request == puts[w].request[1]
       IN  /\ cache_metadata' = RequestMetadata(cache_metadata, request)
           /\ IF request.cache_level = FULL_DOCUMENT
              THEN /\ shadow_full' = Put(shadow_full, RequestHash(request),
                                         [payload |-> request.content, gets |-> 0])
                   /\ UNCHANGED shadow_page
              ELSE /\ shadow_page' = Put(shadow_page, RequestHash(request),
                                         [payload |-> request.content, gets |-> 0])
                   /\ UNCHANGED shadow_full
    /\ puts' = PutAt(w, "idle", None)
    /\ UNCHANGED <<full_doc_files, page_files, session_stats, now>>
    /\ UNCHANGED <<analyzeVars, chunkVars, raised, gets, legacy_cache>>

\* the caller's process ends inside the save
SaveKilled(w) ==
    /\ puts[w].pc \in {"opened", "dumped"}
    /\ puts' = PutAt(w, "idle", None)
    /\ UNCHANGED <<storeVars, analyzeVars, chunkVars, raised, gets, legacy_cache>>

----------------------------------------------------------------------------
(* Specification of concurrent callers of the cache store *)

\* two payloads of different length for the page
PutPagePayloads ==
    {PageResult(1, c, "a.pdf", PageFileName("a.pdf", 1)) : c \in {<<"x">>, <<"y", "y">>}}

PutFullPayloads == {PageResult(1, <<"x">>, "a.pdf", PageFileName("a.pdf", 1))}

PutRequests ==
    {SaveRequest(INDIVIDUAL_PAGE, <<"p">>, "a.pdf", Some(1), Some(<<"p", "q">>), x) :
        x \in PutPagePayloads}
    \cup {SaveRequest(FULL_DOCUMENT, <<"p", "q">>, "a.pdf", None, None, <<x>>) :
             x \in PutFullPayloads}

\* callers that run their saves to the end, and readers
NextRace ==
    \/ \E w \in Writers, request \in PutRequests : SaveOpen(w, request)
    \/ \E w \in Writers : SaveDump(w)
    \/ \E w \in Writers : SaveMetadata(w)
    \/ /\ GetsBelowCap
       /\ GetFullDocumentCache(<<"p", "q">>, "a.pdf")
    \/ /\ GetsBelowCap
       /\ GetPageCache(<<"p">>, "a.pdf", 1, <<"p", "q">>)

SpecRace == InitStore /\ [][NextRace]_vars

\* the same, with callers that may be killed inside a save, and the clock
NextPut ==
    \/ NextRace
    \/ \E w \in Writers : SaveKilled(w)
    \/ Tick

SpecPut == InitStore /\ [][NextPut]_vars

----------------------------------------------------------------------------

(* The cache store on storage that fails: the metadata index (sqlite3) or  *)
(* the content directory raises inside a call.  What a call does with the  *)
(* exception is read off its try blocks: has_*, the has_* call at the head *)
(* of get_*, cleanup_by_criteria's SELECT and the two statistics calls run *)
(* outside any try; the file read of get_* and all of save_* run inside.   *)

\* an exception of the metadata index leaves the call
Escapes(operation) ==
    /\ raised' = Some([operation |-> operation, exception |-> "sqlite3.Error"])
    /\ UNCHANGED <<storeVars, analyzeVars, chunkVars, puts, gets, legacy_cache>>

\* has_*: self._get_cache_metadata(file_hash) raises
HasFullDocumentCacheIndexError == Escapes("has_full_document_cache")

HasPageCacheIndexError == Escapes("has_page_cache")

\* get_*: "if not self.has_*(...)" raises before the try block is entered
GetFullDocumentCacheIndexError == Escapes("get_full_document_cache")

GetPageCacheIndexError == Escapes("get_page_cache")

\* get_full_document_cache: open or json.load raises inside the try; a miss is counted
GetFullDocumentCacheFileError(file_bytes, filename) ==
    /\ HasFullDocumentCache(file_bytes)
    /\ session_stats' = StatsAfterGet(session_stats, FALSE)
    /\ UNCHANGED <<full_doc_files, page_files, cache_metadata, now, shadow_full,
                   shadow_page>>
    /\ UNCHANGED <<analyzeVars, chunkVars, ioVars>>

\* save_full_document_cache: open raises inside the try; the call returns False
SaveFullDocumentCacheFileError(file_bytes, filename, pages_content) ==
    UNCHANGED vars

\* cleanup_by_criteria: conn.execute(query, params) raises, outside the per-item try
CleanupByCriteriaIndexError == Escapes("cleanup_by_criteria")

\* get_comprehensive_stats / get_cache_recommendations: no try at all
GetComprehensiveStatsIndexError == Escapes("get_comprehensive_stats")

GetCacheRecommendationsIndexError == Escapes("get_cache_recommendations")

\* analyze_pdf_pages_with_enhanced_cache: its first cache call,
\* get_full_document_cache, raises and nothing in analyze catches it
AnalyzeIndexError(file_bytes, file_name) ==
    /\ pc = "idle"
    /\ Escapes("analyze_pdf_pages_with_enhanced_cache")

\* The save whose row write raises is caught and returns False; its effect on
\* the store is that of SaveFullDocumentCacheKilled.
NextFault ==
    \/ \E b \in StoreDocs, x \in StoreFullPayloads : SaveFullDocumentCache(b, "a.pdf", x)
    \/ \E b \in StorePages, n \in StorePageNumbers, x \in StorePagePayloads :
          SavePageCache(b, "a.pdf", n, <<"p">>, x)
    \/ \E b \in StoreDocs :
          /\ GetsBelowCap
          /\ GetFullDocumentCache(b, "a.pdf")
    \/ \E b \in StorePages, n \in StorePageNumbers :
          /\ GetsBelowCap
          /\ GetPageCache(b, "a.pdf", n, <<"p">>)
    \/ \E b \in StoreDocs, x \in StoreFullPayloads : SaveFullDocumentCacheKilled(b, "a.pdf", x)
    \/ HasFullDocumentCacheIndexError
    \/ HasPageCacheIndexError
    \/ GetFullDocumentCacheIndexError
    \/ GetPageCacheIndexError
    \/ \E b \in StoreDocs :
          /\ GetsBelowCap
          /\ GetFullDocumentCacheFileError(b, "a.pdf")
    \/ \E b \in StoreDocs, x \in StoreFullPayloads :
          SaveFullDocumentCacheFileError(b, "a.pdf", x)
    \/ CleanupByCriteriaIndexError
    \/ GetComprehensiveStatsIndexError
    \/ GetCacheRecommendationsIndexError
    \/ \E b \in StoreDocs : AnalyzeIndexError(b, "a.pdf")

SpecFault == InitStore /\ [][NextFault]_vars

----------------------------------------------------------------------------

(* get_page_cache step by step, for callers that run at the same time: the *)
(* has-check, the read of the content file, the UPDATE of the access       *)
(* information (one SQL statement, atomic in the database), and the        *)
(* increments of the session counters, each a read followed by a write.    *)

GetRequest(page_bytes, filename, page_number, parent_hash) ==
    [page_bytes |-> page_bytes, filename |-> filename, page_number |-> page_number,
     parent_hash |-> parent_hash]

\* page_hash of the call
GetRequestHash(request) ==
    PageHash(request.page_bytes, request.page_number, request.parent_hash)

GetAt(r, changes) == [gets EXCEPT ![r] = changes @@ gets[r]]

\* if not self.has_page_cache(...): a miss is counted and None returned
GetHas(r, request) ==
    /\ gets[r].pc = "idle"
    /\ gets' = IF HasPageCache(request.page_bytes, request.page_number, request.parent_hash)
               THEN GetAt(r, [pc |-> "open", request |-> Some(request)])
               ELSE GetAt(r, [pc |-> "count", request |-> Some(request),
                              counters |-> <<"cache_misses">>])
    /\ UNCHANGED <<storeVars, analyzeVars, chunkVars, puts, raised, legacy_cache>>

\* with open(cache_file) as f: cached_data = json.load(f); an exception is a miss
GetOpen(r) ==
    /\ gets[r].pc = "open"
    /\ LET page_hash == GetRequestHash(gets[r].request[1])
       IN  gets' = IF page_hash \in DOMAIN page_files /\ JsonLoadable(page_files[page_hash])
                   THEN GetAt(r, [pc |-> "update",
                                  cached_data |-> Some(JsonLoad(page_files[page_hash]))])
                   ELSE GetAt(r, [pc |-> "count", counters |-> <<"cache_misses">>])
    /\ UNCHANGED <<storeVars, analyzeVars, chunkVars, puts, raised, legacy_cache>>

\* self._update_access_info(page_hash)
GetUpdateAccessInfo(r) ==
    /\ gets[r].pc = "update"
    /\ cache_metadata' = UpdateAccessInfo(cache_metadata, GetRequestHash(gets[r].request[1]))
    /\ gets' = GetAt(r, [pc |-> "count", counters |-> <<"cache_hits", "api_calls_saved">>])
    /\ UNCHANGED <<full_doc_files, page_files, session_stats, now, shadow_full, shadow_page>>
    /\ UNCHANGED <<analyzeVars, chunkVars, puts, raised, legacy_cache>>

\* self.session_stats[counter] += 1: the value is read ..
GetLoadCounter(r) ==
    /\ gets[r].pc = "count"
    /\ gets[r].counters # << >>
    /\ gets[r].loaded = None
    /\ gets' = GetAt(r, [loaded |-> Some(session_stats[Head(gets[r].counters)])])
    /\ UNCHANGED <<storeVars, analyzeVars, chunkVars, puts, raised, legacy_cache>>

\* .. and the value read, plus one, is written
GetStoreCounter(r) ==
    /\ gets[r].pc = "count"
    /\ gets[r].loaded # None
    /\ session_stats' = [session_stats EXCEPT ![Head(gets[r].counters)] = gets[r].loaded[1] + 1]
    /\ gets' = GetAt(r, [counters |-> Tail(gets[r].counters), loaded |-> None])
    /\ UNCHANGED <<full_doc_files, page_files, cache_metadata, now, shadow_full, shadow_page>>
    /\ UNCHANGED <<analyzeVars, chunkVars, puts, raised, legacy_cache>>

\* return cached_data["page_content"], or return None
GetReturn(r) ==
    /\ gets[r].pc = "count"
    /\ gets[r].counters = << >>
    /\ gets' = GetAt(r, [pc |-> "done",
                         returned |-> IF gets[r].cached_data = None THEN None
                                      ELSE Some(gets[r].cached_data[1].page_content)])
    /\ shadow_page' = ShadowAfterGet(shadow_page, GetRequestHash(gets[r].request[1]),
                                     gets[r].cached_data # None)
    /\ UNCHANGED <<full_doc_files, page_files, cache_metadata, session_stats, now,
                   shadow_full>>
    /\ UNCHANGED <<analyzeVars, chunkVars, puts, raised, legacy_cache>>

\* no caller has entered a get yet
NoGetStarted == \A r \in Readers : gets[r].pc = "idle"

GetRequests ==
    {GetRequest(b, "a.pdf", n, <<"p">>) : b \in StorePages, n \in StorePageNumbers}

\* entries are saved and read, then the callers get them at the same time
NextGet ==
    \/ /\ NoGetStarted
       /\ \E b \in StorePages, n \in StorePageNumbers, x \in StorePagePayloads :
             SavePageCache(b, "a.pdf", n, <<"p">>, x)
    \/ /\ NoGetStarted
       /\ GetsBelowCap
       /\ \E b \in StorePages, n \in StorePageNumbers : GetPageCache(b, "a.pdf", n, <<"p">>)
    \/ /\ NoGetStarted
       /\ Tick
    \/ \E r \in Readers, request \in GetRequests : GetHas(r, request)
    \/ \E r \in Readers : GetOpen(r)
    \/ \E r \in Readers : GetUpdateAccessInfo(r)
    \/ \E r \in Readers : GetLoadCounter(r)
    \/ \E r \in Readers : GetStoreCounter(r)
    \/ \E r \in Readers : GetReturn(r)

SpecGet == InitStore /\ [][NextGet]_vars

----------------------------------------------------------------------------

(* Claims about the cache store, checked under SpecStore *)

FullHashOf(b) == GetFileHash(b, << >>)

PageHashOf(b, n) == GetFileHash(b, PagePrefix(n))

CorruptFullEntry(b) ==
    /\ FullHashOf(b) \in DOMAIN cache_metadata
    /\ FullHashOf(b) \in DOMAIN full_doc_files
    /\ ~JsonLoadable(full_doc_files[FullHashOf(b)])

CorruptPageEntry(b, n) ==
    /\ PageHashOf(b, n) \in DOMAIN cache_metadata
    /\ PageHashOf(b, n) \in DOMAIN page_files
    /\ ~JsonLoadable(page_files[PageHashOf(b, n)])

\* C5: a get of an entry whose content file cannot be deserialized returns
\* absent and removes the entry (content file and metadata row), so that has
\* is false right after it.
C5_SelfHealing ==
    [][ /\ \A b \in StoreDocs :
             (CorruptFullEntry(b) /\ GetFullDocumentCache(b, "a.pdf")) =>
                /\ GetFullDocumentCacheReturn(b) = None
                /\ FullHashOf(b) \notin DOMAIN full_doc_files'
                /\ FullHashOf(b) \notin DOMAIN cache_metadata'
                /\ ~(HasFullDocumentCache(b))'
        /\ \A b \in StorePages, n \in StorePageNumbers :
             (CorruptPageEntry(b, n) /\ GetPageCache(b, "a.pdf", n, <<"p">>)) =>
                /\ GetPageCacheReturn(b, n, <<"p">>) = None
                /\ PageHashOf(b, n) \notin DOMAIN page_files'
                /\ PageHashOf(b, n) \notin DOMAIN cache_metadata'
                /\ ~(HasPageCache(b, n, <<"p">>))'
      ]_vars

\* the entries the claimed criteria select: older than the cutoff, or read less
\* often than min_access_count, or (a cap being given) larger than the cap
ClaimedRemovals(days_old, min_access_count, max_size_mb) ==
    {h \in DOMAIN cache_metadata :
        \/ cache_metadata[h].last_accessed < now - days_old
        \/ cache_metadata[h].access_count < min_access_count
        \/ (max_size_mb # None /\ cache_metadata[h].file_size > max_size_mb[1])}

\* a cleanup step removes exactly the fingerprints in R, leaves every other
\* entry as it was, and returns the number removed
CleanupRemovesExactly(R, returned) ==
    /\ DOMAIN cache_metadata' = (DOMAIN cache_metadata) \ R
    /\ \A h \in DOMAIN cache_metadata' : cache_metadata'[h] = cache_metadata[h]
    /\ \A h \in R : h \notin DOMAIN full_doc_files' /\ h \notin DOMAIN page_files'
    /\ \A h \in (DOMAIN full_doc_files) \ R :
          h \in DOMAIN full_doc_files' /\ full_doc_files'[h] = full_doc_files[h]
    /\ \A h \in (DOMAIN page_files) \ R :
          h \in DOMAIN page_files' /\ page_files'[h] = page_files[h]
    /\ returned = Cardinality(R)

C7_HasIffReadable ==
    /\ \A b \in StoreDocs :
          HasFullDocumentCache(b) <=>
             /\ FullHashOf(b) \in DOMAIN cache_metadata
             /\ FullHashOf(b) \in DOMAIN full_doc_files
             /\ JsonLoadable(full_doc_files[FullHashOf(b)])
    /\ \A b \in StorePages, n \in StorePageNumbers :
          HasPageCache(b, n, <<"p">>) <=>
             /\ PageHashOf(b, n) \in DOMAIN cache_metadata
             /\ PageHashOf(b, n) \in DOMAIN page_files
             /\ JsonLoadable(page_files[PageHashOf(b, n)])

\* What does hold of has: it is true exactly when the metadata row exists and the
\* content file of that level exists, readable or not; when only one of the two
\* exists has is false, and whenever get would return a payload has is true.
HasIffPresent ==
    /\ \A b \in StoreDocs :
          /\ HasFullDocumentCache(b) <=>
                (FullHashOf(b) \in DOMAIN cache_metadata /\ FullHashOf(b) \in DOMAIN full_doc_files)
          /\ GetFullDocumentCacheReturn(b) # None => HasFullDocumentCache(b)
    /\ \A b \in StorePages, n \in StorePageNumbers :
          /\ HasPageCache(b, n, <<"p">>) <=>
                (PageHashOf(b, n) \in DOMAIN cache_metadata /\ PageHashOf(b, n) \in DOMAIN page_files)
          /\ GetPageCacheReturn(b, n, <<"p">>) # None => HasPageCache(b, n, <<"p">>)

----------------------------------------------------------------------------
(* Claims about the orchestrator, checked under SpecAnalyze *)

\* the page units the splitter makes of the document of a completed call
PagesOf(r) == SplitPdfToPages(r.file_bytes, r.file_name)

\* external calls of a completed call for the page with this number
CallsForPage(r, k) ==
    Cardinality({i \in DOMAIN r.api_calls : r.api_calls[i].page_number = k})

\* external calls of a completed call for pages with these bytes
CallsForBytes(r, page_bytes) ==
    Cardinality({i \in DOMAIN r.api_calls : r.api_calls[i].page_bytes = page_bytes})

\* the result of a completed call holds the page with this number
ReturnedPage(r, k) == \E i \in DOMAIN r.result : r.result[i].page_number = k

\* every external call of the first completed call gave non-empty content
FirstRunNonEmpty ==
    /\ history # << >>
    /\ \A i \in DOMAIN history[1].api_calls :
          /\ ~history[1].api_calls[i].raised
          /\ history[1].api_calls[i].page_content # << >>

PageRows == {h \in DOMAIN cache_metadata : cache_metadata[h].cache_type = INDIVIDUAL_PAGE}

FullRows == {h \in DOMAIN cache_metadata : cache_metadata[h].cache_type = FULL_DOCUMENT}

\* C3: starting from an empty cache, analyzing an N-page document whose pages
\* all yield non-empty content makes exactly N external calls and leaves exactly
\* N page entries and one full-document entry; analyzing the same bytes again
\* makes no external call and returns the result of the first run.
C3_TwoRuns ==
    FirstRunNonEmpty =>
       /\ Len(history[1].api_calls) = Len(PagesOf(history[1]))
       /\ (Len(history) = 1 /\ pc = "idle") =>
             /\ Cardinality(PageRows) = Len(PagesOf(history[1]))
             /\ DOMAIN page_files = PageRows
             /\ FullRows = {FullHashOf(history[1].file_bytes)}
             /\ DOMAIN full_doc_files = FullRows
       /\ (Len(history) >= 2 /\ history[2].file_bytes = history[1].file_bytes) =>
             /\ history[2].api_calls = << >>
             /\ history[2].result = history[1].result

C3_Witness ==
    /\ Len(history) = 2
    /\ FirstRunNonEmpty
    /\ Len(history[1].api_calls) = 2
    /\ history[2].file_bytes = history[1].file_bytes
    /\ history[2].file_name # history[1].file_name
    /\ history[2].api_calls = << >>

\* two completed calls, the earlier first, on different documents, neither
\* answered by the full-document level
DifferentDocuments(i, j) ==
    /\ i < j
    /\ history[i].file_bytes # history[j].file_bytes
    /\ ~history[i].full_hit
    /\ ~history[j].full_hit

\* page k of the earlier document and page l of the later one are byte-identical,
\* and the earlier call returned content for its page
SharedPage(i, k, j, l) ==
    /\ k \in DOMAIN PagesOf(history[i])
    /\ l \in DOMAIN PagesOf(history[j])
    /\ PagesOf(history[i])[k].page_bytes = PagesOf(history[j])[l].page_bytes
    /\ ReturnedPage(history[i], k)

\* the later call makes no external call for the page, and the two calls make one
\* in total when the earlier one started on an empty cache
OneCallInTotal(i, j, page_bytes) ==
    /\ CallsForBytes(history[j], page_bytes) = 0
    /\ CallsForBytes(history[i], page_bytes) <= 1
    /\ i = 1 => CallsForBytes(history[i], page_bytes) = 1

\* C4 as stated: when two different documents contain a byte-identical page,
\* at whatever page numbers, and neither has a full-document hit, the later
\* analysis finds the page in the page cache, so one external call is made for
\* it in total.
C4_PageReuse ==
    \A i, j \in DOMAIN history : \A k, l \in 1..2 :
       (DifferentDocuments(i, j) /\ SharedPage(i, k, j, l)) =>
          OneCallInTotal(i, j, PagesOf(history[i])[k].page_bytes)

\* C4: when two different documents contain a byte-identical page at the same
\* page number, neither has a full-document hit, and the earlier analysis got
\* non-empty content for the page, the later analysis finds it in the page
\* cache, so one external call is made for it in total.
C4_PageReuseSameNumber ==
    \A i, j \in DOMAIN history : \A k \in 1..2 :
       (DifferentDocuments(i, j) /\ SharedPage(i, k, j, k)) =>
          OneCallInTotal(i, j, PagesOf(history[i])[k].page_bytes)

C4_Witness ==
    \E i, j \in DOMAIN history : \E k \in 1..2 :
       /\ DifferentDocuments(i, j)
       /\ SharedPage(i, k, j, k)
       /\ CallsForPage(history[i], k) = 1
       /\ ReturnedPage(history[j], k)
       /\ CallsForPage(history[j], k) = 0

----------------------------------------------------------------------------
(* Claim about the orchestrator, checked under Spec *)

\* the full-document entry of these bytes is there and its file can be read
ReadableFullEntry(b) ==
    /\ FullHashOf(b) \in DOMAIN cache_metadata
    /\ FullHashOf(b) \in DOMAIN full_doc_files
    /\ full_doc_files[FullHashOf(b)].complete

LastRun == history[Len(history)]

\* C2: when a readable full-document entry exists for the input bytes, analyze
\* returns the payload stored in that entry and makes no external call and no
\* call of the page splitter, whatever the state of the page-level entries.
C2_FullShortCircuit ==
    [][\A b \in EnvDocs :
          (ReadableFullEntry(b) /\ AnalyzeStart(b, "a.pdf")) =>
             /\ pc' = "idle"
             /\ Len(history') = Len(history) + 1
             /\ history'[Len(history')].result =
                   full_doc_files[FullHashOf(b)].cache_data.pages_content
             /\ history'[Len(history')].api_calls = << >>
             /\ history'[Len(history')].split_calls = 0
             /\ page_files' = page_files]_vars

C2_Witness ==
    /\ pc = "idle"
    /\ history # << >>
    /\ LastRun.full_hit
    /\ LastRun.result # << >>
    /\ \E h \in DOMAIN page_files : ~page_files[h].complete
    /\ \E k \in DOMAIN PagesOf(LastRun) :
          PageHashOf(PagesOf(LastRun)[k].page_bytes, k) \notin DOMAIN page_files

----------------------------------------------------------------------------
(* Texts of the chunking engines: sequences of characters, built from a few *)
(* lexemes of LaTeX source.                                                *)

Lexemes ==
    {"words", "section", "heading", "document", "{", "}", "*", "space", "newline", "blank"}

\* the characters of a lexeme
Chars(lexeme) ==
    CASE lexeme = "words"    -> <<"w", "o", "r", "d", "s">>
      [] lexeme = "section"  -> <<"\\", "s", "e", "c", "t", "i", "o", "n">>
      [] lexeme = "heading"  -> <<"\\", "S", "e", "c", "t", "i", "o", "n", "{", "a", "}">>
      [] lexeme = "document" -> <<"\\", "b", "e", "g", "i", "n", "{", "d", "o", "c", "u",
                                  "m", "e", "n", "t", "}">>
      [] lexeme = "{"        -> <<"{">>
      [] lexeme = "}"        -> <<"}">>
      [] lexeme = "*"        -> <<"*">>
      [] lexeme = "space"    -> <<" ">>
      [] lexeme = "newline"  -> <<"\n">>
      [] lexeme = "blank"    -> <<"\n", " ", "\n">>

RECURSIVE Flatten(_)
Flatten(seqs) == IF seqs = << >> THEN << >> ELSE Head(seqs) \o Flatten(Tail(seqs))

\* the input texts: every sequence of 1..MaxLen lexemes
ChunkTexts ==
    {Flatten([i \in DOMAIN ls |-> Chars(ls[i])]) :
        ls \in UNION {[1..n -> Lexemes] : n \in 1..MaxLen}}

----------------------------------------------------------------------------
(* shared/text_utils.py and knowledge/config/chunking_config.py *)

MIN_CHUNK_SIZE == 10

MAX_CHUNK_SIZE == 10000

\* DOCUMENT_START_MARKER = r"\begin{document}"
DOCUMENT_START_MARKER == Chars("document")

\* ensure_string on a str: if isinstance(data, str): return data
EnsureString(data) == data

\* def validate_text_length(text: str, min_length: int, max_length: int)
ValidateTextLengthParameters == {"text", "min_length", "max_length"}

\* a call of validate_text_length with these keyword arguments: "ok" when it
\* returns, else the exception it raises
ValidateTextLength(text, min_length, max_length, keywords) ==
    IF ~(keywords \subseteq ValidateTextLengthParameters) THEN "TypeError"
    ELSE IF text = << >> \/ Strip(text) = << >> THEN "ChunkingError"
    ELSE IF Len(Strip(text)) < min_length THEN "ChunkingError"
    ELSE IF Len(Strip(text)) > max_length THEN "ChunkingError"
    ELSE "ok"

\* the last position of the stretch of whitespace that starts at position i
RECURSIVE RunEnd(_, _)
RunEnd(s, i) == IF i < Len(s) /\ IsSpace(s[i + 1]) THEN RunEnd(s, i + 1) ELSE i

NewlinesInRun(s, i) == {k \in i..RunEnd(s, i) : s[k] = "\n"}

LastNewlineInRun(s, i) ==
    CHOOSE k \in NewlinesInRun(s, i) : \A m \in NewlinesInRun(s, i) : m <= k

\* re.sub(r'\n\s*\n\s*\n+', '\n\n', s), scanning from position i: a stretch of
\* whitespace from a line break to the last of three or more becomes "\n\n"
RECURSIVE CollapseBlankLines(_, _)
CollapseBlankLines(s, i) ==
    IF i > Len(s) THEN << >>
    ELSE IF s[i] = "\n" /\ Cardinality(NewlinesInRun(s, i)) >= 3
         THEN <<"\n", "\n">> \o CollapseBlankLines(s, LastNewlineInRun(s, i) + 1)
         ELSE <<s[i]>> \o CollapseBlankLines(s, i + 1)

\* a variant that forgets to trim
CleanChunkNoStrip(chunk) ==
    IF chunk = << >> THEN << >> ELSE CollapseBlankLines(chunk, 1)

\* clean_chunk
CleanChunk(chunk) ==
    IF chunk = << >> THEN << >> ELSE CollapseBlankLines(Strip(chunk), 1)

----------------------------------------------------------------------------
(* ChunkingEngine.split_by_section *)

\* re.IGNORECASE on the letters of the pattern
Lower(c) ==
    CASE c = "S" -> "s" [] c = "E" -> "e" [] c = "C" -> "c" [] c = "T" -> "t"
      [] c = "I" -> "i" [] c = "O" -> "o" [] c = "N" -> "n" [] OTHER -> c

\* text[i:].startswith(word)
StartsWithAt(text, i, word) ==
    /\ i + Len(word) - 1 <= Len(text)
    /\ \A k \in 1..Len(word) : text[i + k - 1] = word[k]

\* text.find(word): the first position where word starts, 0 for -1
Find(text, word) ==
    IF \E i \in 1..Len(text) : StartsWithAt(text, i, word)
    THEN CHOOSE i \in 1..Len(text) :
            /\ StartsWithAt(text, i, word)
            /\ \A j \in 1..(i - 1) : ~StartsWithAt(text, j, word)
    ELSE 0

\* \s* from position i: the first position that is not whitespace
RECURSIVE SkipSpaces(_, _)
SkipSpaces(text, i) ==
    IF i <= Len(text) /\ IsSpace(text[i]) THEN SkipSpaces(text, i + 1) ELSE i

\* [^}]*} from position i: the position of the first "}", 0 when there is none
RECURSIVE FirstCloseBrace(_, _)
FirstCloseBrace(text, i) ==
    IF i > Len(text) THEN 0
    ELSE IF text[i] = "}" THEN i ELSE FirstCloseBrace(text, i + 1)

\* SECTION_REGEX = \\(?:section)\*?\s*{[^}]*} matched at position i: the position
\* of the last character of the match, 0 when it does not match there
SectionMatchEnd(text, i) ==
    IF /\ i + 7 <= Len(text)
       /\ \A k \in 1..8 : Lower(text[i + k - 1]) = Chars("section")[k]
    THEN LET after_star == IF i + 8 <= Len(text) /\ text[i + 8] = "*" THEN i + 9 ELSE i + 8
             brace == SkipSpaces(text, after_star)
         IN  IF brace <= Len(text) /\ text[brace] = "{"
             THEN FirstCloseBrace(text, brace + 1)
             ELSE 0
    ELSE 0

\* [m.start() for m in SECTION_REGEX.finditer(text)], searching from position pos
RECURSIVE SectionMatchStarts(_, _)
SectionMatchStarts(text, pos) ==
    IF pos > Len(text) THEN << >>
    ELSE IF SectionMatchEnd(text, pos) > 0
         THEN <<pos>> \o SectionMatchStarts(text, SectionMatchEnd(text, pos) + 1)
         ELSE SectionMatchStarts(text, pos + 1)

\* doc_start = text.find(DOCUMENT_START_MARKER); text = text[doc_start:] when found
FromDocumentStart(text) ==
    IF Find(text, DOCUMENT_START_MARKER) # 0
    THEN SubSeq(text, Find(text, DOCUMENT_START_MARKER), Len(text))
    ELSE text

Returned(chunks) == [status |-> "returned", chunks |-> chunks]

\* raise ChunkingError(...)
Raised == [status |-> "ChunkingError", chunks |-> << >>]

NonEmpty(chunk) == chunk # << >>

\* a variant that lets every chunk run to the end of the text
SectionChunksToEnd(text, starts) ==
    SelectSeq([i \in DOMAIN starts |-> CleanChunk(SubSeq(text, starts[i], Len(text)))],
              NonEmpty)

\* the chunks from each match to the next, cleaned, the empty ones dropped
SectionChunks(text, starts) ==
    SelectSeq([i \in DOMAIN starts |->
                  CleanChunk(SubSeq(text, starts[i],
                                    IF i + 1 <= Len(starts) THEN starts[i + 1] - 1
                                    ELSE Len(text)))],
              NonEmpty)

SplitBySectionReturn(text) ==
    IF ValidateTextLength(EnsureString(text), MIN_CHUNK_SIZE, MAX_CHUNK_SIZE, {}) # "ok"
    THEN Raised
    ELSE LET body == FromDocumentStart(EnsureString(text))
             starts == SectionMatchStarts(body, 1)
         IN  IF starts = << >>
             THEN Returned(<<CleanChunk(body)>>)
             ELSE Returned(SectionChunks(body, starts))

----------------------------------------------------------------------------
(* NLPChunkingEngine *)

\* what the class body defines (it ends where the module-level def begins) and
\* what __init__ sets
NLPChunkingEngineAttributes ==
    {"__init__", "_ensure_nltk_data", "split_by_sentence_nlp", "split_by_command_nlp",
     "chunk_size", "chunk_overlap", "sentence_splitter"}

\* split_by_sentence_nlp: every exception inside the try becomes a ChunkingError.
\* The call of validate_text_length passes skip_max_validation, and the lookup of
\* self._protect_latex_elements comes next; no input gets past the two.
SplitBySentenceNlpReturn(text) ==
    CASE ValidateTextLength(EnsureString(text), MIN_CHUNK_SIZE, MAX_CHUNK_SIZE,
                            {"skip_max_validation"}) # "ok" -> Raised
      [] "_protect_latex_elements" \notin NLPChunkingEngineAttributes -> Raised

\* the method split_by_command_nlp of the class: every exception inside the try
\* becomes a ChunkingError; no input gets past the call of validate_text_length.
SplitByCommandNlpReturn(text) ==
    CASE ValidateTextLength(EnsureString(text), MIN_CHUNK_SIZE, MAX_CHUNK_SIZE,
                            {"skip_max_validation"}) # "ok" -> Raised

----------------------------------------------------------------------------
(* Specification of the chunking engines: one text, split once in one mode *)

Split(mode, result) ==
    /\ split_result.status = "none"
    /\ split_result' = [mode |-> mode, status |-> result.status, chunks |-> result.chunks]
    /\ UNCHANGED <<latex, filter_loop, protection, storeVars, analyzeVars, ioVars>>

SplitBySection == Split("section", SplitBySectionReturn(latex))

SplitBySentenceNlp == Split("sentence", SplitBySentenceNlpReturn(latex))

SplitByCommandNlp == Split("command", SplitByCommandNlpReturn(latex))

InitSplit ==
    /\ InitCache
    /\ InitAnalyze
    /\ InitIo
    /\ latex \in ChunkTexts
    /\ split_result = [mode |-> "none", status |-> "none", chunks |-> << >>]
    /\ filter_loop = None
    /\ protection = None

NextChunk ==
    \/ SplitBySection
    \/ SplitBySentenceNlp
    \/ SplitByCommandNlp

SpecChunk == InitSplit /\ [][NextChunk]_vars

----------------------------------------------------------------------------
(* split_by_command_nlp: the collection of the pattern matches, the sort   *)
(* and the overlap filter.  Here a text is a sequence of tokens separated  *)
(* by blanks, and a position is a count of tokens: the token at index i    *)
(* spans [i - 1, i).  The call of validate_text_length above the block     *)
(* raises on every text (SplitByCommandNlpReturn); the block is modelled   *)
(* on its own, on the text it is written to work on.                       *)

\* \documentclass{a}, \usepackage{x}, \begin{a}, \end{a}, \foo, plain words
CommandTokens == {"documentclass", "usepackage", "begin", "end", "command", "words"}

CommandTexts == UNION {[1..n -> CommandTokens] : n \in 1..MaxLen}

\* the entry appended to all_matches
Match(start, end, priority) == [start |-> start, end |-> end, priority |-> priority]

\* re.finditer of a pattern that matches single tokens of these kinds
RECURSIVE TokenMatches(_, _, _, _)
TokenMatches(text, kinds, priority, from) ==
    IF from > Len(text) THEN << >>
    ELSE IF text[from] \in kinds
         THEN <<Match(from - 1, from, priority)>>
              \o TokenMatches(text, kinds, priority, from + 1)
         ELSE TokenMatches(text, kinds, priority, from + 1)

\* re.finditer of \begin{..}.*?\end{..} with re.DOTALL: from each \begin to
\* the nearest \end after it, the scan going on behind that \end
RECURSIVE EnvironmentMatches(_, _)
EnvironmentMatches(text, from) ==
    LET begins == {i \in from..Len(text) : text[i] = "begin"}
    IN  IF begins = {} THEN << >>
        ELSE LET b == CHOOSE i \in begins : \A k \in begins : i <= k
                 ends == {j \in (b + 1)..Len(text) : text[j] = "end"}
             IN  IF ends = {} THEN << >>
                 ELSE LET e == CHOOSE j \in ends : \A k \in ends : j <= k
                      IN  <<Match(b - 1, e, 2)>> \o EnvironmentMatches(text, e + 1)

\* all_matches before the sort: pattern after pattern, priority = index of the pattern
CollectMatches(text) ==
    TokenMatches(text, {"documentclass"}, 0, 1)
    \o TokenMatches(text, {"usepackage"}, 1, 1)
    \o EnvironmentMatches(text, 1)
    \o TokenMatches(text, {"documentclass", "usepackage", "begin", "end", "command"}, 3, 1)

\* insertion behind the entries that start at or before the new one
RECURSIVE InsertByStart(_, _)
InsertByStart(sorted, match) ==
    IF sorted = << >> THEN <<match>>
    ELSE IF Head(sorted).start <= match.start
         THEN <<Head(sorted)>> \o InsertByStart(Tail(sorted), match)
         ELSE <<match>> \o sorted

\* all_matches.sort(key=lambda x: x['start']): stable
RECURSIVE SortByStart(_)
SortByStart(matches) ==
    IF matches = << >> THEN << >>
    ELSE InsertByStart(SortByStart(SubSeq(matches, 1, Len(matches) - 1)),
                       matches[Len(matches)])

\* the entries from index i on that start before the end of the current one
Overlapping(all_matches, i) ==
    {j \in i..Len(all_matches) : all_matches[j].start < all_matches[i].end}

\* min(overlapping, key=lambda x: x['priority']): the index of the first entry
\* among them with the least priority number
BestIndex(all_matches, i) ==
    CHOOSE j \in Overlapping(all_matches, i) :
       \A k \in Overlapping(all_matches, i) :
          \/ all_matches[j].priority < all_matches[k].priority
          \/ /\ all_matches[j].priority = all_matches[k].priority
             /\ j <= k

BestMatch(all_matches, i) == all_matches[BestIndex(all_matches, i)]

\* a variant that moves on by one entry
NextIndexByOne(all_matches, i, best_match) == i + 1

\* while i < len(all_matches) and all_matches[i]['start'] < best_match['end']: i += 1
\* stops at the first index from i on whose entry starts at or behind that end
NextIndex(all_matches, i, best_match) ==
    LET behind == {k \in i..Len(all_matches) : all_matches[k].start >= best_match.end}
    IN  IF behind = {} THEN Len(all_matches) + 1
        ELSE CHOOSE k \in behind : \A l \in behind : k <= l

\* the outer while loop from index i on, as a function: the kept entries
RECURSIVE FilterMatches(_, _)
FilterMatches(all_matches, i) ==
    IF i > Len(all_matches) THEN << >>
    ELSE <<BestMatch(all_matches, i)>>
         \o FilterMatches(all_matches, NextIndex(all_matches, i, BestMatch(all_matches, i)))

\* filtered_matches of a text
FilteredMatches(text) == FilterMatches(SortByStart(CollectMatches(text)), 1)

\* the collection and the sort; the list index i counts from 1 here
CollectAndSort ==
    /\ split_result.status = "none"
    /\ filter_loop' = Some([all_matches |-> SortByStart(CollectMatches(latex)),
                            i |-> 1,
                            filtered_matches |-> << >>])
    /\ split_result' = [mode |-> "command", status |-> "filtering", chunks |-> << >>]
    /\ UNCHANGED <<latex, protection, storeVars, analyzeVars, ioVars>>

\* one pass of the outer while loop
FilterIteration ==
    /\ split_result.status = "filtering"
    /\ LET loop == filter_loop[1]
           best_match == BestMatch(loop.all_matches, loop.i)
       IN  /\ loop.i <= Len(loop.all_matches)
           /\ filter_loop' =
                 Some([loop EXCEPT
                          !.filtered_matches = Append(loop.filtered_matches, best_match),
                          !.i = NextIndex(loop.all_matches, loop.i, best_match)])
    /\ UNCHANGED <<latex, split_result, protection, storeVars, analyzeVars, ioVars>>

\* the loop condition fails: the block is through
FilterDone ==
    /\ split_result.status = "filtering"
    /\ filter_loop[1].i > Len(filter_loop[1].all_matches)
    /\ split_result' = [mode |-> "command", status |-> "filtered",
                        chunks |-> filter_loop[1].filtered_matches]
    /\ UNCHANGED <<latex, filter_loop, protection, storeVars, analyzeVars, ioVars>>

InitCommand ==
    /\ InitCache
    /\ InitAnalyze
    /\ InitIo
    /\ latex \in CommandTexts
    /\ split_result = [mode |-> "none", status |-> "none", chunks |-> << >>]
    /\ filter_loop = None
    /\ protection = None

NextCommand ==
    \/ CollectAndSort
    \/ FilterIteration
    \/ FilterDone

SpecCommand == InitCommand /\ [][NextCommand]_vars

----------------------------------------------------------------------------


(* _protect_latex_elements and _restore_latex_elements, on texts that are   *)
(* sequences of characters.  A match is the pair of its first and its last  *)
(* position; protection_map is the sequence of its items in insertion order *)

ProtectLexemes == {"command", "letter", "{", "}", "environment", "space"}

ProtectChars(lexeme) ==
    CASE lexeme = "command"     -> <<"\\", "a">>
      [] lexeme = "letter"      -> <<"b">>
      [] lexeme = "{"           -> <<"{">>
      [] lexeme = "}"           -> <<"}">>
      [] lexeme = "environment" -> <<"\\", "b", "e", "g", "i", "n", "{", "e", "}",
                                     "\\", "e", "n", "d", "{", "e", "}">>
      [] lexeme = "space"       -> <<" ">>

\* the input texts: every sequence of 1..MaxLen lexemes
ProtectTexts ==
    {Flatten([k \in DOMAIN ls |-> ProtectChars(ls[k])]) :
        ls \in UNION {[1..n -> ProtectLexemes] : n \in 1..MaxLen}}

\* f"{n}"
Decimal(n) ==
    LET digit(d) == <<"0", "1", "2", "3", "4", "5", "6", "7", "8", "9">>[d + 1]
    IN  IF n < 10 THEN <<digit(n)>> ELSE <<digit(n \div 10), digit(n % 10)>>

\* f"__LATEX_ENV_{placeholder_counter}__" and f"__LATEX_CMD_{placeholder_counter}__"
Placeholder(kind, placeholder_counter) ==
    <<"_", "_", "L", "A", "T", "E", "X", "_">> \o kind \o <<"_">>
    \o Decimal(placeholder_counter) \o <<"_", "_">>

ENV == <<"E", "N", "V">>

CMD == <<"C", "M", "D">>

\* s.replace(old, new) from position i on: the occurrences of old from left to
\* right, none overlapping the one before
RECURSIVE StrReplace(_, _, _, _)
StrReplace(s, old, new, i) ==
    IF i > Len(s) THEN << >>
    ELSE IF StartsWithAt(s, i, old)
         THEN new \o StrReplace(s, old, new, i + Len(old))
         ELSE <<s[i]>> \o StrReplace(s, old, new, i + 1)

\* the position of the first character from i on that is in stop, 0 when none
RECURSIVE FirstOf(_, _, _)
FirstOf(text, i, stop) ==
    IF i > Len(text) THEN 0
    ELSE IF text[i] \in stop THEN i ELSE FirstOf(text, i + 1, stop)

\* \\begin\{[^}]+\} or \\end\{[^}]+\} matched at position i: the position of
\* its closing brace, 0 when it does not match there
TagEnd(text, i, tag) ==
    IF StartsWithAt(text, i, tag)
    THEN LET close == FirstOf(text, i + Len(tag), {"}"})
         IN  IF close > i + Len(tag) THEN close ELSE 0
    ELSE 0

BeginTag == <<"\\", "b", "e", "g", "i", "n", "{">>

EndTag == <<"\\", "e", "n", "d", "{">>

\* .*?\\end\{[^}]+\} from position j on: the end of the first \end{..} found
RECURSIVE LazyEnd(_, _)
LazyEnd(text, j) ==
    IF j > Len(text) THEN 0
    ELSE IF TagEnd(text, j, EndTag) > 0 THEN TagEnd(text, j, EndTag)
         ELSE LazyEnd(text, j + 1)

\* env_pattern matched at position i: the position of its last character, or 0
EnvMatchEnd(text, i) ==
    IF TagEnd(text, i, BeginTag) > 0
    THEN LazyEnd(text, TagEnd(text, i, BeginTag) + 1)
    ELSE 0

Letters ==
    {"a", "b", "c", "d", "e", "f", "g", "h", "i", "j", "k", "l", "m", "n", "o", "p",
     "q", "r", "s", "t", "u", "v", "w", "x", "y", "z",
     "A", "B", "C", "D", "E", "F", "G", "H", "I", "J", "K", "L", "M", "N", "O", "P",
     "Q", "R", "S", "T", "U", "V", "W", "X", "Y", "Z"}

\* [a-zA-Z*]+ from position i on: the position of its last character
RECURSIVE NameEnd(_, _)
NameEnd(text, i) ==
    IF i < Len(text) /\ text[i + 1] \in Letters \cup {"*"}
    THEN NameEnd(text, i + 1)
    ELSE i

\* (?:\[[^\]]*\])? behind position i: the position of its last character
OptionEnd(text, i) ==
    IF i < Len(text) /\ text[i + 1] = "[" /\ FirstOf(text, i + 2, {"]"}) > 0
    THEN FirstOf(text, i + 2, {"]"})
    ELSE i

\* (?:\{[^{}]*\})* behind position i: the position of its last character
RECURSIVE GroupsEnd(_, _)
GroupsEnd(text, i) ==
    IF /\ i < Len(text)
       /\ text[i + 1] = "{"
       /\ FirstOf(text, i + 2, {"{", "}"}) > 0
       /\ text[FirstOf(text, i + 2, {"{", "}"})] = "}"
    THEN GroupsEnd(text, FirstOf(text, i + 2, {"{", "}"}))
    ELSE i

\* inline_pattern matched at position i: the position of its last character, or 0
InlineMatchEnd(text, i) ==
    IF text[i] = "\\" /\ i < Len(text) /\ text[i + 1] \in Letters \cup {"*"}
    THEN GroupsEnd(text, OptionEnd(text, NameEnd(text, i + 1)))
    ELSE 0

\* [m.group(0) for m in re.finditer(pattern, text)] from position pos on
RECURSIVE EnvGroups(_, _)
EnvGroups(text, pos) ==
    IF pos > Len(text) THEN << >>
    ELSE IF EnvMatchEnd(text, pos) > 0
         THEN <<SubSeq(text, pos, EnvMatchEnd(text, pos))>>
              \o EnvGroups(text, EnvMatchEnd(text, pos) + 1)
         ELSE EnvGroups(text, pos + 1)

RECURSIVE InlineGroups(_, _)
InlineGroups(text, pos) ==
    IF pos > Len(text) THEN << >>
    ELSE IF InlineMatchEnd(text, pos) > 0
         THEN <<SubSeq(text, pos, InlineMatchEnd(text, pos))>>
              \o InlineGroups(text, InlineMatchEnd(text, pos) + 1)
         ELSE InlineGroups(text, pos + 1)

\* one of the two for loops: the matches in order, each given the next
\* placeholder, entered in the map and replaced wherever its text occurs
RECURSIVE ProtectGroups(_, _, _)
ProtectGroups(groups, kind, state) ==
    IF groups = << >> THEN state
    ELSE LET placeholder == Placeholder(kind, state.placeholder_counter)
         IN  ProtectGroups(Tail(groups), kind,
                [protected_text |-> StrReplace(state.protected_text, Head(groups),
                                               placeholder, 1),
                 protection_map |-> Append(state.protection_map,
                                           <<placeholder, Head(groups)>>),
                 placeholder_counter |-> state.placeholder_counter + 1])

\* _protect_latex_elements: the environments of text, then the commands of the
\* text the first loop left
ProtectLatexElements(text) ==
    LET environments == ProtectGroups(EnvGroups(text, 1), ENV,
                           [protected_text |-> text, protection_map |-> << >>,
                            placeholder_counter |-> 0])
    IN  ProtectGroups(InlineGroups(environments.protected_text, 1), CMD, environments)

\* _restore_latex_elements: for placeholder, original in protection_map.items()
RECURSIVE RestoreLatexElements(_, _)
RestoreLatexElements(text, protection_map) ==
    IF protection_map = << >> THEN text
    ELSE RestoreLatexElements(
            StrReplace(text, Head(protection_map)[1], Head(protection_map)[2], 1),
            Tail(protection_map))

\* some placeholder of the map lies across the cut behind position k
InsidePlaceholder(text, protection_map, k) ==
    \E m \in DOMAIN protection_map : \E s \in 1..k :
       /\ StartsWithAt(text, s, protection_map[m][1])
       /\ k < s + Len(protection_map[m][1]) - 1

\* protected_text, protection_map = _protect_latex_elements(text)
Protect ==
    /\ split_result.status = "none"
    /\ protection' = Some([protected_text |-> ProtectLatexElements(latex).protected_text,
                           protection_map |-> ProtectLatexElements(latex).protection_map])
    /\ split_result' = [mode |-> "protect", status |-> "protected",
                        chunks |-> <<ProtectLatexElements(latex).protected_text>>]
    /\ UNCHANGED <<latex, filter_loop, storeVars, analyzeVars, ioVars>>

\* a splitter cuts the protected text in two behind position k, outside the
\* placeholders
CutProtected(k) ==
    /\ split_result.status = "protected"
    /\ k < Len(protection[1].protected_text)
    /\ ~InsidePlaceholder(protection[1].protected_text, protection[1].protection_map, k)
    /\ split_result' = [split_result EXCEPT
                           !.status = "cut",
                           !.chunks = <<SubSeq(protection[1].protected_text, 1, k),
                                        SubSeq(protection[1].protected_text, k + 1,
                                               Len(protection[1].protected_text))>>]
    /\ UNCHANGED <<latex, filter_loop, protection, storeVars, analyzeVars, ioVars>>

\* _restore_latex_elements on every piece
Restore ==
    /\ split_result.status \in {"protected", "cut"}
    /\ split_result' = [split_result EXCEPT
                           !.status = "restored",
                           !.chunks = [n \in DOMAIN split_result.chunks |->
                                          RestoreLatexElements(split_result.chunks[n],
                                             protection[1].protection_map)]]
    /\ UNCHANGED <<latex, filter_loop, protection, storeVars, analyzeVars, ioVars>>

InitProtect ==
    /\ InitCache
    /\ InitAnalyze
    /\ InitIo
    /\ latex \in ProtectTexts
    /\ split_result = [mode |-> "none", status |-> "none", chunks |-> << >>]
    /\ filter_loop = None
    /\ protection = None

NextProtect ==
    \/ Protect
    \/ \E k \in 1..(MaxLen * 16) : CutProtected(k)
    \/ Restore

SpecProtect == InitProtect /\ [][NextProtect]_vars

----------------------------------------------------------------------------

(* Claims about the chunking engines, checked under SpecChunk *)

\* a text the length validation accepts
ValidInput(text) ==
    /\ Strip(text) # << >>
    /\ Len(Strip(text)) >= MIN_CHUNK_SIZE
    /\ Len(Strip(text)) <= MAX_CHUNK_SIZE

\* C8: for every non-empty valid input text and every mode, split returns a
\* non-empty sequence of chunks, and every chunk is non-empty after trimming.
C8_NonEmptyChunks ==
    (split_result.status # "none" /\ ValidInput(latex)) =>
       /\ split_result.status = "returned"
       /\ split_result.chunks # << >>
       /\ \A i \in DOMAIN split_result.chunks : Strip(split_result.chunks[i]) # << >>

\* the text holds no section-boundary marker
NoSectionMarker(text) == \A i \in 1..Len(text) : SectionMatchEnd(text, i) = 0

\* C9 as stated: for every valid input without a section-boundary marker,
\* SECTION mode returns exactly one chunk, and it equals the trimmed input.
C9_SectionFallback ==
    (split_result.mode = "section" /\ ValidInput(latex) /\ NoSectionMarker(latex)) =>
       /\ split_result.status = "returned"
       /\ split_result.chunks = <<Strip(latex)>>

\* nothing but whitespace comes before the first document start marker, if any
NoFrontMatter(text) ==
    \A i \in 1..Len(text) :
       StartsWithAt(text, i, DOCUMENT_START_MARKER) =>
          \E j \in 1..i : /\ StartsWithAt(text, j, DOCUMENT_START_MARKER)
                          /\ \A k \in 1..(j - 1) : IsSpace(text[k])

\* a stretch of whitespace that holds three or more line breaks
HasBlankLines(text) ==
    \E i \in 1..Len(text) :
       /\ text[i] = "\n"
       /\ \E k \in (i + 2)..Len(text) :
             /\ text[k] = "\n"
             /\ \A m \in i..k : IsSpace(text[m])
             /\ \E j \in (i + 1)..(k - 1) : text[j] = "\n"

\* C9: for every valid input without a section-boundary marker, SECTION mode
\* returns exactly one chunk; the chunk equals the trimmed input when no front
\* matter comes before a document start marker and the trimmed input holds no
\* stretch of whitespace with three or more line breaks.
C9_SectionFallbackPlain ==
    (split_result.mode = "section" /\ ValidInput(latex) /\ NoSectionMarker(latex)) =>
       /\ split_result.status = "returned"
       /\ Len(split_result.chunks) = 1
       /\ (NoFrontMatter(latex) /\ ~HasBlankLines(Strip(latex))) =>
             split_result.chunks = <<Strip(latex)>>

C9_Witness ==
    /\ split_result.mode = "section"
    /\ ValidInput(latex)
    /\ NoSectionMarker(latex)
    /\ NoFrontMatter(latex)
    /\ ~HasBlankLines(Strip(latex))
    /\ Find(latex, DOCUMENT_START_MARKER) > 1
    /\ Strip(latex) # latex
    /\ split_result.chunks = <<Strip(latex)>>

\* the spans of the commands with their arguments, here the section commands
CommandSpans(text) ==
    {SubSeq(text, i, SectionMatchEnd(text, i)) :
        i \in {j \in 1..Len(text) : SectionMatchEnd(text, j) > 0}}

ContainsWhole(chunk, span) == \E i \in 1..Len(chunk) : StartsWithAt(chunk, i, span)

\* C10: in SENTENCE mode every protected span of the input (a command with its
\* arguments) appears whole inside exactly one returned sentence.
C10_SentenceProtection ==
    (split_result.mode = "sentence" /\ ValidInput(latex)) =>
       /\ split_result.status = "returned"
       /\ \A span \in CommandSpans(latex) :
             Cardinality({i \in DOMAIN split_result.chunks :
                             ContainsWhole(split_result.chunks[i], span)}) = 1
----------------------------------------------------------------------------
(* Further claims about the orchestrator, checked under SpecAnalyze *)

\* the page numbers of a list of page results are strictly ascending
AscendingPages(result) ==
    \A i, j \in DOMAIN result : i < j => result[i].page_number < result[j].page_number

\* among these calls, one for page k that raised or gave empty content
FailedCall(calls, k) ==
    \E i \in DOMAIN calls :
       /\ calls[i].page_number = k
       /\ (calls[i].raised \/ calls[i].page_content = << >>)

\* the pages 1..n of a call were all gone through: each was called at most once,
\* and the result holds, in ascending order, exactly those without a failed
\* call, the called ones with the content their call gave
PagesIsolated(result, calls, n) ==
    /\ AscendingPages(result)
    /\ \A i \in DOMAIN result : result[i].page_number \in 1..n
    /\ \A k \in 1..n :
          /\ Cardinality({i \in DOMAIN calls : calls[i].page_number = k}) <= 1
          /\ (\E i \in DOMAIN result : result[i].page_number = k) <=> ~FailedCall(calls, k)
    /\ \A i \in DOMAIN calls : \A j \in DOMAIN result :
          (calls[i].page_number = result[j].page_number) =>
             result[j].content = calls[i].page_content

\* C13: if the external call raises for some pages, analyze still goes through
\* every remaining page and returns exactly the pages whose call succeeded, or
\* that were found in the cache, with non-empty content, in ascending page
\* order; a failing page never ends the document.
C13_PageFailureIsolation ==
    /\ \A r \in Range(history) :
          ~r.full_hit => PagesIsolated(r.result, r.api_calls, Len(PagesOf(r)))
    /\ history # << >> => Len(history[1].api_calls) = Len(PagesOf(history[1]))
    /\ pc = "pages" => PagesIsolated(acc_pages_content, api_calls, page_index - 1)

C13_Witness ==
    \E r \in Range(history) :
       /\ Len(r.api_calls) = 2
       /\ r.api_calls[1].raised
       /\ ~r.api_calls[2].raised
       /\ Len(r.result) = 1
       /\ r.result[1].page_number = 2
\* the call of run r for page k, if any, returned and gave empty content
EmptyExtraction(r, k) ==
    \E c \in Range(r.api_calls) :
       c.page_number = k /\ ~c.raised /\ c.page_content = << >>

\* run r called the service for page k and got content
FreshContent(r, k) ==
    \E c \in Range(r.api_calls) :
       c.page_number = k /\ ~c.raised /\ c.page_content # << >>

\* runs i < j see the same page bytes at page number k, both at page level
SamePageAgain(i, j, k) ==
    /\ i < j
    /\ ~history[i].full_hit
    /\ ~history[j].full_hit
    /\ k \in DOMAIN PagesOf(history[i])
    /\ k \in DOMAIN PagesOf(history[j])
    /\ PagesOf(history[i])[k].page_bytes = PagesOf(history[j])[k].page_bytes

\* C14: after any sequence of analyze calls no page entry has a payload with
\* empty content and no element of a result has empty content; a page whose
\* extraction was empty is sent to the external service again the next time
\* it is seen at page level.
C14_EmptyNeverCached ==
    /\ \A h \in DOMAIN page_files :
          JsonLoad(page_files[h]).page_content.content # << >>
    /\ \A r \in Range(history) : \A i \in DOMAIN r.result : r.result[i].content # << >>
    /\ \A i \in DOMAIN acc_pages_content : acc_pages_content[i].content # << >>
    /\ \A i, j \in DOMAIN history : \A k \in 1..2 :
          (/\ SamePageAgain(i, j, k)
           /\ EmptyExtraction(history[i], k)
           /\ \A l \in (i + 1)..(j - 1) :
                 ~(SamePageAgain(i, l, k) /\ FreshContent(history[l], k)))
          => CallsForPage(history[j], k) = 1

C14_Witness ==
    /\ Len(history) >= 2
    /\ SamePageAgain(1, 2, 1)
    /\ EmptyExtraction(history[1], 1)
    /\ FreshContent(history[2], 1)
    /\ DOMAIN page_files # {}
\* the units are numbered 1..N in page order, one page each
NumberedInOrder(units, file_bytes) ==
    /\ Len(units) = Len(file_bytes)
    /\ \A i \in DOMAIN units :
          units[i].page_number = i /\ units[i].page_bytes = <<file_bytes[i]>>

\* exactly one unit, page 1, holding the entire input
WholeInputAsPageOne(units, file_bytes) ==
    /\ Len(units) = 1
    /\ units[1].page_number = 1
    /\ units[1].page_bytes = file_bytes

\* C15: when the decomposition fails the splitter returns exactly one unit
\* with page number 1 and the entire input bytes, whatever pages it made
\* before the failure, and analyze goes on with that unit: it is the only
\* page looked up and called; when the decomposition succeeds the units are
\* numbered 1..N in page order.
C15_SplitFallback ==
    /\ pc = "pages" =>
          IF Parseable(arg_file_bytes)
          THEN NumberedInOrder(pages_data, arg_file_bytes)
          ELSE WholeInputAsPageOne(pages_data, arg_file_bytes)
    /\ \A r \in Range(history) :
          (~r.full_hit /\ ~Parseable(r.file_bytes)) =>
             /\ \A c \in Range(r.api_calls) :
                   c.page_number = 1 /\ c.page_bytes = r.file_bytes
             /\ Len(r.api_calls) <= 1
             /\ Len(r.result) <= 1
             /\ \A i \in DOMAIN r.result : r.result[i].page_number = 1
    /\ (history # << >> /\ ~Parseable(history[1].file_bytes)) =>
          Len(history[1].api_calls) = 1

C15_Witness ==
    \E r \in Range(history) :
       /\ r.file_bytes = <<"p", "!">>
       /\ Len(r.api_calls) = 1
       /\ r.api_calls[1].page_bytes = <<"p", "!">>
       /\ Len(r.result) = 1
       /\ r.result[1].page_number = 1
\* the byte strings and prefixes the orchestrator fingerprints
FingerprintedBytes == AnalyzeDocs \cup {<<s>> : s \in PageSymbols}

FingerprintPrefixes == {<< >>} \cup {PagePrefix(n) : n \in 1..2}

\* C16: the fingerprint depends on the bytes and the prefix only: the key an
\* entry was stored under is the fingerprint computed again, in any later
\* cache state, from the entry's bytes and prefix, and the rows of the two
\* levels never meet; the same bytes under two different prefixes have
\* different fingerprints.
C16_FingerprintSeparation ==
    /\ \A b \in FingerprintedBytes : \A p1, p2 \in FingerprintPrefixes :
          p1 # p2 => GetFileHash(b, p1) # GetFileHash(b, p2)
    /\ \A h \in DOMAIN page_files :
          /\ h \in {GetFileHash(b, PagePrefix(page_files[h].cache_data.page_number)) :
                        b \in FingerprintedBytes}
          /\ h \in DOMAIN cache_metadata
          /\ cache_metadata[h].cache_type = INDIVIDUAL_PAGE
          /\ cache_metadata[h].page_number = Some(page_files[h].cache_data.page_number)
    /\ \A h \in DOMAIN full_doc_files :
          /\ h \in {GetFileHash(b, << >>) : b \in AnalyzeDocs}
          /\ h \in DOMAIN cache_metadata
          /\ cache_metadata[h].cache_type = FULL_DOCUMENT
    /\ \A r \in Range(history) : \A i \in DOMAIN r.result :
          r.result[i].page_number \in DOMAIN PagesOf(r)

\* the page p is stored under both page numbers, and as a whole document
C16_Witness ==
    /\ GetFileHash(<<"p">>, PagePrefix(1)) \in DOMAIN page_files
    /\ GetFileHash(<<"p">>, PagePrefix(2)) \in DOMAIN page_files
    /\ \E r \in Range(history) : r.file_bytes = <<"q", "p">> /\ Len(r.api_calls) = 2

----------------------------------------------------------------------------
(* Further claims about the cache, checked under SpecStore *)

\* C19: while an entry's row stays in the store, no operation lowers its
\* access_count or changes its created_at -- a repeated put of the same
\* fingerprint included.
C19_AccessCountMonotonic ==
    [][\A h \in DOMAIN cache_metadata \cap DOMAIN cache_metadata' :
          /\ cache_metadata'[h].access_count >= cache_metadata[h].access_count
          /\ cache_metadata'[h].created_at = cache_metadata[h].created_at]_vars

----------------------------------------------------------------------------
(* Claims about concurrent saves, checked under SpecRace and SpecPut *)

NoSaveInProgress == \A w \in Writers : puts[w].pc = "idle"

\* C17: whatever the interleaving of the steps of two saves of one
\* fingerprint and level, once both have returned the entry has its row and
\* a content file that deserializes to the payload of one of the two, and a
\* get returns that payload.
C17_ConcurrentPuts ==
    NoSaveInProgress =>
       /\ HasMetadata(GetFileHash(<<"p", "q">>, << >>)) =>
             /\ FullDocumentCacheHit(<<"p", "q">>)
             /\ GetFullDocumentCacheReturn(<<"p", "q">>) \in
                   {Some(<<x>>) : x \in PutFullPayloads}
       /\ HasMetadata(PageHash(<<"p">>, 1, <<"p", "q">>)) =>
             /\ PageCacheHit(<<"p">>, 1, <<"p", "q">>)
             /\ GetPageCacheReturn(<<"p">>, 1, <<"p", "q">>) \in
                   {Some(x) : x \in PutPagePayloads}

\* C20: a save writes the content file completely before its row, so in
\* every reachable state, a caller killed inside a save included, every row
\* of the metadata table has a complete content file -- on the first save
\* of a fingerprint and on a repeated one.
C20_PutWriteOrdering ==
    \A h \in DOMAIN cache_metadata :
       /\ CacheFileExists(h, cache_metadata[h].cache_type)
       /\ JsonLoadable(CacheDir(cache_metadata[h].cache_type)[h])

\* all that the store holds under one fingerprint: files, row, what a get returns
EntryState(h) ==
    [full_file |-> IF h \in DOMAIN full_doc_files THEN Some(full_doc_files[h]) ELSE None,
     page_file |-> IF h \in DOMAIN page_files THEN Some(page_files[h]) ELSE None,
     row |-> IF h \in DOMAIN cache_metadata THEN Some(cache_metadata[h]) ELSE None]

DocumentEntry == GetFileHash(<<"p", "q">>, << >>)

PageEntry == PageHash(<<"p">>, 1, <<"p", "q">>)

\* the step is a step of a save call on fingerprint h
SaveStepOn(h) ==
    \E w \in Writers :
       /\ puts'[w] # puts[w]
       /\ \/ puts[w].request # None /\ RequestHash(puts[w].request[1]) = h
          \/ puts'[w].request # None /\ RequestHash(puts'[w].request[1]) = h

\* C18: a step of a save or a get on one fingerprint, alone or between the
\* steps of calls on another fingerprint, leaves the other entry's content
\* file and row (access_count and timestamps with it) as they were, and a
\* get of the other entry returns the same payload before and after.
C18_EntryIsolation ==
    [][/\ (SaveStepOn(PageEntry) \/ GetPageCache(<<"p">>, "a.pdf", 1, <<"p", "q">>)) =>
             /\ EntryState(DocumentEntry)' = EntryState(DocumentEntry)
             /\ GetFullDocumentCacheReturn(<<"p", "q">>)' =
                   GetFullDocumentCacheReturn(<<"p", "q">>)
       /\ (SaveStepOn(DocumentEntry) \/ GetFullDocumentCache(<<"p", "q">>, "a.pdf")) =>
             /\ EntryState(PageEntry)' = EntryState(PageEntry)
             /\ GetPageCacheReturn(<<"p">>, 1, <<"p", "q">>)' =
                   GetPageCacheReturn(<<"p">>, 1, <<"p", "q">>)]_vars

\* both entries are stored and were read, and a save of each is under way
C18_Witness ==
    /\ PageEntry \in DOMAIN cache_metadata
    /\ DocumentEntry \in DOMAIN cache_metadata
    /\ cache_metadata[PageEntry].access_count = 1
    /\ cache_metadata[DocumentEntry].access_count = 1
    /\ puts[1].pc = "dumped" /\ RequestHash(puts[1].request[1]) = PageEntry
    /\ puts[2].pc = "opened" /\ RequestHash(puts[2].request[1]) = DocumentEntry

----------------------------------------------------------------------------
(* Claim about failing storage, checked under SpecFault *)

\* C12: no failure of the content store or of the metadata index leaves a
\* cache operation (has, get, put, cleanup, statistics) or analyze as an
\* exception: it shows as a miss, as false or as a skipped entry.
C12_FailuresContained == raised = None

----------------------------------------------------------------------------
(* Claim about the overlap filter of the command mode, checked under SpecCommand *)

Overlap(a, b) == a.start < b.end /\ b.start < a.end

\* C11: the matches the filter keeps do not overlap each other, and every
\* collected match it drops overlaps a kept match whose priority number is
\* not greater than its own.
C11_HighestPriorityWins ==
    split_result.status = "filtered" =>
       LET kept == Range(split_result.chunks)
           collected == Range(CollectMatches(latex))
       IN  /\ \A a, b \in kept : a # b => ~Overlap(a, b)
           /\ kept \subseteq collected
           /\ \A m \in collected \ kept :
                 \E k \in kept : Overlap(m, k) /\ k.priority <= m.priority

----------------------------------------------------------------------------
(* Claims about what analyze returns over several calls, checked under SpecAnalyze *)

\* C26: every element analyze returns carries the source_file of the call
\* that returns it and the page's position in the document of that call --
\* also when the element comes out of the page cache or the full-document
\* cache and was stored during a call under another file name.
C26_ResultProvenance ==
    \A r \in Range(history) : \A i \in DOMAIN r.result :
       /\ r.result[i].source_file = r.file_name
       /\ r.result[i].page_number \in DOMAIN PagesOf(r)

\* the call of run r for page k raised or gave no content
FailedExtraction(r, k) ==
    \E c \in Range(r.api_calls) :
       c.page_number = k /\ (c.raised \/ c.page_content = << >>)

\* C27: when the external call for page k fails or gives no content in one
\* analyze while another page of the document succeeds, a later analyze of
\* the same bytes calls the service for page k again, unless an analyze in
\* between already got page k, and a call that succeeds puts page k into
\* the result.
C27_FailureNotMasked ==
    \A i, j \in DOMAIN history : \A k \in 1..2 :
       (/\ i < j
        /\ history[i].file_bytes = history[j].file_bytes
        /\ FailedExtraction(history[i], k)
        /\ \E n \in 1..2 : n # k /\ FreshContent(history[i], n)
        /\ \A l \in (i + 1)..(j - 1) :
              history[l].file_bytes = history[i].file_bytes
                 => ~FreshContent(history[l], k))
       => /\ CallsForPage(history[j], k) = 1
          /\ FreshContent(history[j], k)
                => \E e \in Range(history[j].result) : e.page_number = k

\* C21: every analyze that misses the full-document cache ends by writing a
\* full-document entry under the document's fingerprint whose payload has
\* one element per page of the document, in page order.
C21_FullDocumentBackfill ==
    [][(pc = "pages" /\ pc' = "idle") =>
          LET file_hash == GetFileHash(arg_file_bytes, << >>)
          IN  /\ file_hash \in DOMAIN full_doc_files'
              /\ JsonLoadable(full_doc_files'[file_hash])
              /\ LET pages_content == JsonLoad(full_doc_files'[file_hash]).pages_content
                 IN  /\ Len(pages_content) = Len(pages_data)
                     /\ \A i \in DOMAIN pages_content :
                           pages_content[i].page_number = i]_vars

----------------------------------------------------------------------------
(* Claim about the session counters, checked under SpecStore *)

\* the step is a get of either level
GetStep ==
    \/ \E b \in StoreDocs : GetFullDocumentCache(b, "a.pdf")
    \/ \E b \in StorePages, n \in StorePageNumbers : GetPageCache(b, "a.pdf", n, <<"p">>)

\* C24: api_calls_saved equals cache_hits in every state; a get adds one to
\* exactly one of cache_hits and cache_misses; every other operation (put,
\* cleanup, the clock, damage to files) leaves the counters as they are.
C24_SessionStatistics ==
    [][/\ session_stats.api_calls_saved = session_stats.cache_hits
       /\ session_stats'.api_calls_saved = session_stats'.cache_hits
       /\ IF GetStep
          THEN \/ /\ session_stats'.cache_hits = session_stats.cache_hits + 1
                  /\ session_stats'.cache_misses = session_stats.cache_misses
               \/ /\ session_stats'.cache_hits = session_stats.cache_hits
                  /\ session_stats'.cache_misses = session_stats.cache_misses + 1
          ELSE session_stats' = session_stats]_vars

C24_Witness ==
    /\ session_stats.cache_hits = 1
    /\ session_stats.cache_misses = 1
    /\ session_stats.api_calls_saved = 1
    /\ DOMAIN cache_metadata # {}
----------------------------------------------------------------------------
(* Claim about the length validation of the modes, checked under SpecChunk *)

\* C23: every mode rejects an input whose trimmed length is below the minimum
\* chunk size with a chunking failure, and the modes that opt out of the
\* maximum (COMMAND, SENTENCE) accept every input whose trimmed length is at
\* least the minimum and return chunks.
C23_LengthValidation ==
    /\ (split_result.status # "none" /\ Len(Strip(latex)) < MIN_CHUNK_SIZE) =>
          split_result.status = "ChunkingError"
    /\ (split_result.mode \in {"sentence", "command"}
           /\ Len(Strip(latex)) >= MIN_CHUNK_SIZE) =>
          split_result.status = "returned"
----------------------------------------------------------------------------
(* Claim about the chunks of SECTION mode, checked under SpecChunk *)

\* the text split_by_section looks for markers in, and where they start
SectionBody == FromDocumentStart(latex)

SectionStarts == SectionMatchStarts(SectionBody, 1)

\* the text from marker i to the start of the next one, or to the end of the text
SectionSpan(i) ==
    SubSeq(SectionBody, SectionStarts[i],
           IF i < Len(SectionStarts) THEN SectionStarts[i + 1] - 1 ELSE Len(SectionBody))

----------------------------------------------------------------------------
(* Claim about the loop of the overlap filter, checked under SpecCommand *)

StartsAscend(matches) ==
    \A a, b \in DOMAIN matches : a < b => matches[a].start < matches[b].start

\* C28: the overlap-resolution loop terminates: every pass of the outer loop
\* moves i strictly forward and never past the end of all_matches by more than
\* one, so there are at most len(all_matches) passes, and the kept matches come
\* out in strictly ascending start order.
C28_LoopTerminates ==
    /\ [][(filter_loop # None /\ filter_loop' # filter_loop) =>
             /\ filter_loop'[1].i > filter_loop[1].i
             /\ filter_loop'[1].i <= Len(filter_loop[1].all_matches) + 1
             /\ Len(filter_loop'[1].filtered_matches) = Len(filter_loop[1].filtered_matches) + 1
             /\ Len(filter_loop'[1].filtered_matches) <= Len(filter_loop[1].all_matches)
             /\ StartsAscend(filter_loop'[1].filtered_matches)]_vars
    /\ [](split_result.status = "filtered" =>
             /\ filter_loop[1].i = Len(filter_loop[1].all_matches) + 1
             /\ StartsAscend(split_result.chunks))

\* the loop went round twice and kept two matches, dropping a third
C28_Witness ==
    /\ split_result.status = "filtered"
    /\ Len(split_result.chunks) = 2
    /\ Len(filter_loop[1].all_matches) > 2
    /\ \A k \in DOMAIN filter_loop[1].all_matches :
          filter_loop[1].all_matches[k].end > filter_loop[1].all_matches[k].start
----------------------------------------------------------------------------
(* Claim about protection and restoration, checked under SpecProtect *)

\* the text holds a placeholder token of either kind
HoldsPlaceholder(text) ==
    \E s \in 1..Len(text) : \E kind \in {ENV, CMD} : \E n \in 0..(MaxLen * 2) :
       StartsWithAt(text, s, Placeholder(kind, n))

\* C29: for every input that holds no placeholder token, restoring the
\* protected text with the protection map gives back the input exactly, and so
\* does restoring the pieces of a split of the protected text outside the
\* placeholders and joining them.
C29_ProtectRestoreRoundTrip ==
    (split_result.status = "restored" /\ ~HoldsPlaceholder(latex)) =>
       Flatten(split_result.chunks) = latex
----------------------------------------------------------------------------
(* Claim about gets that run at the same time, checked under SpecGet *)

\* the callers whose get of the entry has updated the access information and
\* has not returned yet
Updating(h) ==
    {r \in Readers : /\ gets[r].pc = "count"
                     /\ gets[r].cached_data # None
                     /\ GetRequestHash(gets[r].request[1]) = h}

\* the callers whose get of the entry has returned
Returned30(h) ==
    {r \in Readers : gets[r].pc = "done" /\ GetRequestHash(gets[r].request[1]) = h}

\* C30: in every interleaving of the successful gets of one entry, each get
\* adds exactly one to the entry's access_count, so that N gets leave it N
\* higher, and every get returns the stored payload.
C30_NoLostAccessUpdates ==
    \A h \in DOMAIN shadow_page :
       /\ h \in DOMAIN cache_metadata
       /\ cache_metadata[h].access_count = shadow_page[h].gets + Cardinality(Updating(h))
       /\ \A r \in Returned30(h) : gets[r].returned = Some(shadow_page[h].payload)

\* every caller has got the same entry, which had been read once before
C30_Witness ==
    \E h \in DOMAIN shadow_page :
       /\ Returned30(h) = Readers
       /\ \A r \in Readers : gets[r].returned # None
       /\ cache_metadata[h].access_count = Cardinality(Readers) + 1
----------------------------------------------------------------------------
(* Claim about the legacy variant, checked under SpecLegacy *)

\* the enhanced store, page-level entries included, is neither written nor read
EnhancedStoreUntouched ==
    /\ page_files = EmptyMap
    /\ full_doc_files = EmptyMap
    /\ cache_metadata = EmptyMap
    /\ session_stats.cache_hits = 0
    /\ session_stats.cache_misses = 0

\* a call that starts on a readable entry returns its payload with no external call
LegacyHitStep ==
    \A b \in AnalyzeDocs :
       (LegacyCacheHit(b) /\ LegacyAnalyzeStart(b, "a.pdf")) =>
          /\ pc' = "idle"
          /\ history'[Len(history')].api_calls = << >>
          /\ history'[Len(history')].result =
                JsonLoad(legacy_cache.files[LegacyGetFileHash(b)]).pages_content

\* a call that ends after a miss writes one whole-document entry, the pages it returns
LegacyMissStep ==
    (pc = "legacy_pages" /\ pc' = "idle") =>
       /\ LegacyGetFileHash(arg_file_bytes) \in DOMAIN legacy_cache'.files
       /\ JsonLoad(legacy_cache'.files[LegacyGetFileHash(arg_file_bytes)]).pages_content
             = history'[Len(history')].result
       /\ \A h \in DOMAIN legacy_cache'.files :
             h # LegacyGetFileHash(arg_file_bytes) =>
                /\ h \in DOMAIN legacy_cache.files
                /\ legacy_cache'.files[h] = legacy_cache.files[h]

\* C22 as stated: on a whole-document miss the legacy analyze calls the
\* external service exactly once, on the unsplit document, and writes only a
\* whole-document entry; on a hit it makes no external call; it never reads or
\* writes page-level entries.
C22_LegacySingleCall ==
    /\ [](/\ EnhancedStoreUntouched
          /\ \A r \in Range(history) :
                IF r.full_hit THEN r.api_calls = << >>
                ELSE /\ Len(r.api_calls) = 1
                     /\ r.api_calls[1].page_bytes = r.file_bytes)
    /\ [][LegacyHitStep /\ LegacyMissStep]_vars

\* C22, amended: on a whole-document miss the legacy analyze splits the
\* document and calls the external service exactly once per page unit, in page
\* order, on that unit's bytes, and writes only a whole-document entry; on a
\* hit it makes no external call; it never reads or writes page-level entries.
C22_LegacyCallPerPage ==
    /\ [](/\ EnhancedStoreUntouched
          /\ \A r \in Range(history) :
                IF r.full_hit THEN r.api_calls = << >>
                ELSE /\ Len(r.api_calls) = Len(PagesOf(r))
                     /\ \A k \in DOMAIN r.api_calls :
                           /\ r.api_calls[k].page_number = PagesOf(r)[k].page_number
                           /\ r.api_calls[k].page_bytes = PagesOf(r)[k].page_bytes)
    /\ [][LegacyHitStep /\ LegacyMissStep]_vars

\* a document of two pages is analyzed with two external calls, one of which
\* raises, and analyzed again from the entry the first call wrote
C22_Witness ==
    /\ Len(history) = 2
    /\ ~history[1].full_hit
    /\ Len(history[1].api_calls) = 2
    /\ \E k \in 1..2 : history[1].api_calls[k].raised
    /\ history[2].full_hit
    /\ history[2].file_bytes = history[1].file_bytes
    /\ history[2].result = history[1].result
    /\ history[2].result # << >>

====
